---- MODULE Spec2Model ----
(***************************************************************************)
(* Terrain streaming of Chasma: the RAW16 tile cache (heightmap_data.rs)   *)
(* and the per-frame chunk scheduler (terrain/async_chunk_loader.rs).      *)
(*                                                                         *)
(* One frame runs the chained systems async_schedule_chunks and            *)
(* async_receive_chunks (terrain/plugin.rs:64).  The camera, the tile      *)
(* files on disk, the background mesh jobs and other callers of fetch_tile *)
(* act between the systems.                                                *)
(***************************************************************************)
EXTENDS Integers, Sequences, FiniteSets, TLC

(* ---------------------------- bounds ----------------------------------- *)
\* columns of the lattice (TILES_X is 16 in terrain/plugin.rs); the model
\* keeps row 0 of the lattice
TilesX == 1
\* pixels per tile (1024 x 1024 in terrain/plugin.rs)
TileResX == 3
TileResZ == 2
\* in-scene chunk entities that can be alive at once
MaxEntities == 2
\* largest IntegrationBudget / MeshBuildBudget resource value tried
MaxIntegBudget == 1
MaxBuildBudget == 1

(* ------------------------ program constants ---------------------------- *)
CHUNK_RADIUS == 2
ChunkSizeX == 512
ChunkSizeZ == 512
OriginX == 0
OriginZ == 0
NearLimit == 600
MidLimit == 1200
RAW_MIN == 0
RAW_MAX == 65535
HEIGHT_SCALE_METERS == 600

\* Option<T>: None is the empty sequence, Some(x) the one-element sequence
None == <<>>
Some(x) == <<x>>
NoFile == [exists |-> FALSE, bytes |-> <<>>]
OnDisk(b) == [exists |-> TRUE, bytes |-> b]
LodLevel == {"Near", "Mid", "Far"}

Min(a, b) == IF a < b THEN a ELSE b

\* integer floor division (f32 division followed by floor())
FloorDiv(a, b) == a \div b

Max(a, b) == IF a > b THEN a ELSE b
Abs(a) == IF a < 0 THEN 0 - a ELSE a

\* f32 values are modelled as exact fractions [n, d] in lowest terms, d > 0
RECURSIVE GCD(_, _)
GCD(a, b) == IF b = 0 THEN a ELSE GCD(b, a % b)

Q(n, d) ==
    LET g == GCD(Abs(n), d)
    IN  [n |-> n \div g, d |-> d \div g]

QInt(k) == [n |-> k, d |-> 1]

\* both fractions over their least common denominator
Common(a, b) ==
    LET l == (a.d \div GCD(a.d, b.d)) * b.d
    IN  [a |-> a.n * (l \div a.d), b |-> b.n * (l \div b.d), d |-> l]

QAdd(a, b) == LET c == Common(a, b) IN Q(c.a + c.b, c.d)
QSub(a, b) == LET c == Common(a, b) IN Q(c.a - c.b, c.d)

QMul(a, b) ==
    LET g1 == GCD(Abs(a.n), b.d)
        g2 == GCD(Abs(b.n), a.d)
    IN  Q((a.n \div g1) * (b.n \div g2), (a.d \div g2) * (b.d \div g1))

\* a / b for b > 0
QDiv(a, b) == QMul(a, [n |-> b.d, d |-> b.n])
QLt(a, b) == LET c == Common(a, b) IN c.a < c.b
QMin(a, b) == IF QLt(b, a) THEN b ELSE a
QMax(a, b) == IF QLt(a, b) THEN b ELSE a

\* f32::clamp
QClamp(a, lo, hi) == QMax(lo, QMin(a, hi))

\* f32::floor
QFloor(a) == a.n \div a.d

\* f32::round of a value that is not negative: half goes up
QRound(a) == (2 * a.n + a.d) \div (2 * a.d)

(* ------------------------------ tiles ---------------------------------- *)
ExpectedPixels == TileResX * TileResZ
ExpectedBytes == ExpectedPixels * 2

\* tile files the environment can put on disk
FileA == OnDisk([k \in 1..ExpectedBytes |-> (k * 37) % 256])
FileB == OnDisk([k \in 1..(ExpectedBytes + 1) |-> (k * 101 + 5) % 256])
ShortFile == OnDisk([k \in 1..(ExpectedBytes - 1) |-> 9])
AllFiles == {NoFile, ShortFile, FileA, FileB}
NewFiles == {FileA}

LatticeKeys == {<<cx, 0>> : cx \in 0..(TilesX - 1)}
\* coordinates fetch_tile is asked for: the lattice and its seam neighbours
FetchCoords == {<<cx, cz>> : cx \in 0..TilesX, cz \in {0, 1}}
\* the two tiles the tile store is exercised on by itself
TileCoords == {<<0, 0>>, <<1, 0>>}

VARIABLES
    cam,            \* Transform.translation of the MainCamera
    files,          \* tile files on disk, by tile coordinate
    tiles,          \* HeightTileCache.tiles
    desired,        \* ChunkManager.desired
    loaded,         \* ChunkManager.loaded
    tasks,          \* AsyncChunkLoader.tasks
    pending,        \* AsyncChunkLoader.pending
    entities,       \* alive in-scene chunk entities, with their ChunkKey
    loadedEvents,   \* TerrainChunkLoaded events sent in this frame
    unloadedEvents, \* TerrainChunkUnloaded events sent
    integBudget,    \* IntegrationBudget resource
    buildBudget,    \* MeshBuildBudget resource (None when absent)
    phase,          \* the system of the chain that runs next
    started,        \* jobs submitted by the schedule pass of this frame
    removed,        \* keys despawned by the schedule pass of this frame
    lastFetch,      \* coordinate and result of the last fetch_tile call
    call,           \* arguments of the function call under examination
    ret,            \* what that call returned
    props           \* resources of the props plugin

vars == <<cam, files, tiles, desired, loaded, tasks, pending, entities,
          loadedEvents, unloadedEvents, integBudget, buildBudget, phase,
          started, removed, lastFetch, call, ret, props>>

(* --------------------------- HeightTileCache --------------------------- *)
FileAt(fs, c) == IF c \in DOMAIN fs THEN fs[c] ELSE NoFile

\* a decoder that takes the first byte of each pair as the high byte
load_raw16_bigEndian(file) ==
    IF ~file.exists THEN None
    ELSE IF Len(file.bytes) < ExpectedBytes THEN None
    ELSE Some([res |-> <<TileResX, TileResZ>>,
               data |-> [k \in 1..ExpectedPixels |->
                            256 * file.bytes[2 * k - 1] + file.bytes[2 * k]]])

\* load_raw16: None for a missing or short file, else the little-endian
\* decoding of the first ExpectedBytes bytes
load_raw16(file) ==
    IF ~file.exists THEN None
    ELSE IF Len(file.bytes) < ExpectedBytes THEN None
    ELSE Some([res |-> <<TileResX, TileResZ>>,
               data |-> [k \in 1..ExpectedPixels |->
                            file.bytes[2 * k - 1] + 256 * file.bytes[2 * k]]])

\* get_or_load that caches a blank tile when the load fails
get_or_load_cacheFailure(cache, fs, c) ==
    IF c \in DOMAIN cache THEN cache
    ELSE LET tile == load_raw16(FileAt(fs, c))
             blank == [res |-> <<TileResX, TileResZ>>,
                       data |-> [k \in 1..ExpectedPixels |-> 0]]
         IN  [k \in DOMAIN cache \cup {c} |->
                 IF k # c THEN cache[k]
                 ELSE IF tile = None THEN blank ELSE tile[1]]

\* get_or_load: the cache after the call (a failed load inserts nothing)
get_or_load(cache, fs, c) ==
    IF c \in DOMAIN cache THEN cache
    ELSE LET tile == load_raw16(FileAt(fs, c))
         IN  IF tile = None THEN cache
             ELSE [k \in DOMAIN cache \cup {c} |->
                      IF k = c THEN tile[1] ELSE cache[k]]

\* fetch_tile that answers None on a miss although the tile gets cached
fetch_tile_missFirst(cache, fs, c) ==
    IF c \in DOMAIN cache THEN Some(cache[c]) ELSE None

\* fetch_tile that reads the file again whenever the file is valid
fetch_tile_rereads(cache, fs, c) ==
    LET tile == load_raw16(FileAt(fs, c))
    IN  IF tile # None THEN tile
        ELSE IF c \in DOMAIN cache THEN Some(cache[c]) ELSE None

\* fetch_tile: the snapshot returned (None when the tile is unavailable)
fetch_tile(cache, fs, c) ==
    LET after == get_or_load(cache, fs, c)
    IN  IF c \in DOMAIN after THEN Some(after[c]) ELSE None

(* ----------------------------- LodLevel -------------------------------- *)
\* LodLevel::grid_res
grid_res(lod) ==
    IF lod = "Near" THEN <<129, 129>>
    ELSE IF lod = "Mid" THEN <<65, 65>>
    ELSE <<33, 33>>

\* pick whose thresholds belong to the nearer tier
pick_inclusive(dist2) ==
    IF dist2 <= NearLimit * NearLimit THEN "Near"
    ELSE IF dist2 <= MidLimit * MidLimit THEN "Mid"
    ELSE "Far"

\* pick compares a distance; the model compares its square
pick(dist2) ==
    IF dist2 < NearLimit * NearLimit THEN "Near"
    ELSE IF dist2 < MidLimit * MidLimit THEN "Mid"
    ELSE "Far"

(* ------------------------- desired-set helpers ------------------------- *)
chunk_origin_world(cx, cz) ==
    <<OriginX + cx * ChunkSizeX, OriginZ + cz * ChunkSizeZ>>

needed_chunks_around(pos, radius) ==
    LET vx == FloorDiv(pos.x - OriginX, ChunkSizeX)
        vz == FloorDiv(pos.z - OriginZ, ChunkSizeZ)
    IN  {k \in LatticeKeys :
            /\ k[1] >= vx - radius /\ k[1] <= vx + radius
            /\ k[2] >= vz - radius /\ k[2] <= vz + radius}

\* step 1 of async_schedule_chunks.  Vec3::truncate keeps (x, y): the
\* distance is taken between (cam.x, cam.y) and (center.x, 0).
ComputeDesired(pos) ==
    [k \in needed_chunks_around(pos, CHUNK_RADIUS) |->
        LET origin == chunk_origin_world(k[1], k[2])
            centerX == origin[1] + ChunkSizeX \div 2
            dx == pos.x - centerX
            dy == pos.y - 0
        IN  pick(dx * dx + dy * dy)]

(* ------------------------ async_schedule_chunks ------------------------ *)
RemoveKeys(f, ks) == [k \in DOMAIN f \ ks |-> f[k]]

\* step 2: should_remove of one loaded key
should_remove(ld, ds, key) ==
    IF key \in DOMAIN ds THEN ld[key].lod # ds[key] ELSE TRUE

\* step 2 without lines 100 and 101: the queued work of a removed key stays
Reconcile_keepsWork(ld, ds, tk, pd, ents) ==
    LET rem == {k \in DOMAIN ld : should_remove(ld, ds, k)}
    IN  [removed  |-> rem,
         loaded   |-> RemoveKeys(ld, rem),
         entities |-> RemoveKeys(ents, {ld[k].ent : k \in rem}),
         tasks    |-> tk,
         pending  |-> pd]

\* step 2: despawn the mismatching residents, drop the work queued for them
Reconcile(ld, ds, tk, pd, ents) ==
    LET rem == {k \in DOMAIN ld : should_remove(ld, ds, k)}
        keep(info) == <<info.cx, info.cz>> \notin rem
    IN  [removed  |-> rem,
         loaded   |-> RemoveKeys(ld, rem),
         entities |-> RemoveKeys(ents, {ld[k].ent : k \in rem}),
         tasks    |-> SelectSeq(tk, keep),
         pending  |-> SelectSeq(pd, keep)]

\* already_queued that finds nothing queued
already_queued_never(tk, pd, key, lod) == FALSE

\* already_queued that looks at the completion queue only
already_queued_pendingOnly(tk, pd, key, lod) ==
    \E n \in 1..Len(pd) :
        pd[n].cx = key[1] /\ pd[n].cz = key[2] /\ pd[n].lod = lod

\* step 3: already_queued
already_queued(tk, pd, key, lod) ==
    \/ \E n \in 1..Len(tk) :
          tk[n].cx = key[1] /\ tk[n].cz = key[2] /\ tk[n].lod = lod
    \/ \E n \in 1..Len(pd) :
          pd[n].cx = key[1] /\ pd[n].cz = key[2] /\ pd[n].lod = lod

\* the four fetch_tile calls of one launch iteration, as the cache they leave
SnapshotTiles(cache, fs, key) ==
    LET c1 == get_or_load(cache, fs, key)
        c2 == get_or_load(c1, fs, <<key[1] + 1, key[2]>>)
        c3 == get_or_load(c2, fs, <<key[1], key[2] + 1>>)
    IN  get_or_load(c3, fs, <<key[1] + 1, key[2] + 1>>)

\* step 3, lines 129 to 146: snapshot the tiles and submit the job, or skip
\* the key when its own tile is unavailable
AdmitStep_always(key, lod, fs, acc) ==
    LET job == [cx |-> key[1], cz |-> key[2], lod |-> lod]
    IN  [tasks   |-> Append(acc.tasks, job),
         tiles   |-> SnapshotTiles(acc.tiles, fs, key),
         started |-> Append(acc.started, job)]

\* a launch iteration that takes every own tile for missing
AdmitStep_never(key, lod, fs, acc) ==
    [acc EXCEPT !.tiles = SnapshotTiles(acc.tiles, fs, key)]

\* a launch iteration that counts a key whose own tile is missing as started
AdmitStep_countsSkip(key, lod, fs, acc) ==
    LET cur == fetch_tile(acc.tiles, fs, key)
        cache == SnapshotTiles(acc.tiles, fs, key)
        job == [cx |-> key[1], cz |-> key[2], lod |-> lod]
    IN  IF cur = None
          THEN [acc EXCEPT !.tiles = cache,
                           !.started = Append(acc.started, job)]
          ELSE [tasks   |-> Append(acc.tasks, job),
                tiles   |-> cache,
                started |-> Append(acc.started, job)]

AdmitStep(key, lod, fs, acc) ==
    LET cur == fetch_tile(acc.tiles, fs, key)
        cache == SnapshotTiles(acc.tiles, fs, key)
        job == [cx |-> key[1], cz |-> key[2], lod |-> lod]
    IN  IF cur = None
          THEN [acc EXCEPT !.tiles = cache]
          ELSE [tasks   |-> Append(acc.tasks, job),
                tiles   |-> cache,
                started |-> Append(acc.started, job)]

\* step 3: the 'launch loop over the desired map in iteration order `order`
RECURSIVE Launch(_, _, _, _, _, _, _, _)
Launch(order, i, ds, ld, pd, fs, budget, acc) ==
    IF i > Len(order) THEN acc
    ELSE
      LET key == order[i]
          lod == ds[key]
      IN  IF key \in DOMAIN ld /\ ld[key].lod = lod
            THEN Launch(order, i + 1, ds, ld, pd, fs, budget, acc)
          ELSE IF already_queued(acc.tasks, pd, key, lod)
            THEN Launch(order, i + 1, ds, ld, pd, fs, budget, acc)
          ELSE IF budget # None /\ Len(acc.started) >= budget[1]
            THEN acc
          ELSE Launch(order, i + 1, ds, ld, pd, fs, budget,
                      AdmitStep(key, lod, fs, acc))

\* a removal that drops the last element whatever the index
swap_remove_dropsLast(s, i) == SubSeq(s, 1, Len(s) - 1)

\* Vec::swap_remove
swap_remove(s, i) ==
    LET n == Len(s)
    IN  IF i = n THEN SubSeq(s, 1, n - 1)
        ELSE [SubSeq(s, 1, n - 1) EXCEPT ![i] = s[n]]

\* polling that queues every finished job under the tier Mid
RECURSIVE Poll_tierMid(_, _, _, _)
Poll_tierMid(tk, pd, i, ready) ==
    IF i > Len(tk) THEN [tasks |-> tk, pending |-> pd]
    ELSE IF tk[i] \in ready
      THEN Poll_tierMid(swap_remove(tk, i),
                        Append(pd, [tk[i] EXCEPT !.lod = "Mid"]), i, ready)
      ELSE Poll_tierMid(tk, pd, i + 1, ready)

\* step 4: poll every task once, move the finished ones to pending;
\* check_ready answers Some for the jobs in `ready`, those that have finished
RECURSIVE Poll(_, _, _, _)
Poll(tk, pd, i, ready) ==
    IF i > Len(tk) THEN [tasks |-> tk, pending |-> pd]
    ELSE IF tk[i] \in ready
      THEN Poll(swap_remove(tk, i), Append(pd, tk[i]), i, ready)
      ELSE Poll(tk, pd, i + 1, ready)

\* all iteration orders of a hash map's keys
Orders(S) ==
    {o \in [1..Cardinality(S) -> S] :
        \A a, b \in 1..Cardinality(S) : a # b => o[a] # o[b]}

Range(q) == {q[n] : n \in 1..Len(q)}

\* steps 1 to 3 with admission run before reconciliation
ScheduleLaunch_admitFirst(pos, ld, tk, pd, ents, cache, fs, budget, order) ==
    LET ds == ComputeDesired(pos)
        l == Launch(order, 1, ds, ld, pd, fs, budget,
                    [tasks |-> tk, tiles |-> cache, started |-> <<>>])
        r == Reconcile(ld, ds, l.tasks, pd, ents)
    IN  [desired |-> ds, loaded |-> r.loaded, entities |-> r.entities,
         tasks |-> r.tasks, pending |-> r.pending, tiles |-> l.tiles,
         started |-> l.started, removed |-> r.removed]

\* steps 1 to 3 in program order
ScheduleLaunch(pos, ld, tk, pd, ents, cache, fs, budget, order) ==
    LET ds == ComputeDesired(pos)
        r == Reconcile(ld, ds, tk, pd, ents)
        l == Launch(order, 1, ds, r.loaded, r.pending, fs, budget,
                    [tasks |-> r.tasks, tiles |-> cache, started |-> <<>>])
    IN  [desired |-> ds, loaded |-> r.loaded, entities |-> r.entities,
         tasks |-> l.tasks, pending |-> r.pending, tiles |-> l.tiles,
         started |-> l.started, removed |-> r.removed]

\* one pass; the jobs that have finished when step 4 polls them are an
\* input, as is the iteration order of the desired map
async_schedule_chunks ==
    /\ phase = "schedule"
    /\ phase' = "receive"
    /\ \E order \in Orders(DOMAIN ComputeDesired(cam)) :
          \E n \in {ScheduleLaunch(cam, loaded, tasks, pending, entities,
                                    tiles, files, buildBudget, order)} :
          \E ready \in SUBSET Range(n.tasks) :
          \E p \in {Poll(n.tasks, n.pending, 1, ready)} :
                    /\ desired' = n.desired
                    /\ loaded' = n.loaded
                    /\ entities' = n.entities
                    /\ tasks' = p.tasks
                    /\ pending' = p.pending
                    /\ tiles' = n.tiles
                    /\ started' = n.started
                    /\ removed' = n.removed
    /\ loadedEvents' = <<>>
    /\ UNCHANGED <<cam, files, unloadedEvents, integBudget, buildBudget,
                   lastFetch, call, ret, props>>

(* ------------------------ async_receive_chunks ------------------------- *)
\* the TerrainChunkLoaded event with an empty footprint
ChunkLoadedEvent_noSize(info) ==
    LET min_x == OriginX + info.cx * ChunkSizeX
        min_z == OriginZ + info.cz * ChunkSizeZ
    IN  [coord  |-> [x |-> info.cx, z |-> info.cz],
         min_xz |-> <<min_x, min_z>>,
         max_xz |-> <<min_x, min_z>>]

\* the TerrainChunkLoaded event of one integrated entry
ChunkLoadedEvent(info) ==
    LET min_x == OriginX + info.cx * ChunkSizeX
        min_z == OriginZ + info.cz * ChunkSizeZ
    IN  [coord  |-> [x |-> info.cx, z |-> info.cz],
         min_xz |-> <<min_x, min_z>>,
         max_xz |-> <<min_x + ChunkSizeX, min_z + ChunkSizeZ>>]

\* Commands::spawn: an entity id that is not alive
FreshEntity(ents) == CHOOSE e \in 1..(MaxEntities + 1) : e \notin DOMAIN ents

\* the loop condition of line 177 (i stays 0)
integrate_more_offByOne(pd, integrated, budget) ==
    0 < Len(pd) /\ integrated <= budget

integrate_more(pd, integrated, budget) ==
    0 < Len(pd) /\ integrated < budget

\* a while loop that takes the newest entry of the completion queue first
RECURSIVE Integrate_lifo(_, _, _, _, _, _)
Integrate_lifo(pd, ld, ents, evs, integrated, budget) ==
    IF ~integrate_more(pd, integrated, budget)
      THEN [pending |-> pd, loaded |-> ld, entities |-> ents, events |-> evs]
    ELSE
      LET info == pd[Len(pd)]
          e == FreshEntity(ents)
          key == <<info.cx, info.cz>>
      IN  Integrate_lifo(SubSeq(pd, 1, Len(pd) - 1),
                    [k \in DOMAIN ld \cup {key} |->
                        IF k = key THEN [ent |-> e, lod |-> info.lod]
                        ELSE ld[k]],
                    [x \in DOMAIN ents \cup {e} |->
                        IF x = e THEN [cx |-> info.cx, cz |-> info.cz]
                        ELSE ents[x]],
                    Append(evs, ChunkLoadedEvent(info)),
                    integrated + 1, budget)

\* the while loop: remove(0), spawn, insert into loaded, send the event
RECURSIVE Integrate(_, _, _, _, _, _)
Integrate(pd, ld, ents, evs, integrated, budget) ==
    IF ~integrate_more(pd, integrated, budget)
      THEN [pending |-> pd, loaded |-> ld, entities |-> ents, events |-> evs]
    ELSE
      LET info == Head(pd)
          e == FreshEntity(ents)
          key == <<info.cx, info.cz>>
      IN  Integrate(Tail(pd),
                    [k \in DOMAIN ld \cup {key} |->
                        IF k = key THEN [ent |-> e, lod |-> info.lod]
                        ELSE ld[k]],
                    [x \in DOMAIN ents \cup {e} |->
                        IF x = e THEN [cx |-> info.cx, cz |-> info.cz]
                        ELSE ents[x]],
                    Append(evs, ChunkLoadedEvent(info)),
                    integrated + 1, budget)

async_receive_chunks ==
    /\ phase = "receive"
    /\ phase' = "schedule"
    /\ Cardinality(DOMAIN entities) + Min(integBudget, Len(pending))
          <= MaxEntities
    /\ \E n \in {Integrate(pending, loaded, entities, <<>>, 0, integBudget)} :
           /\ pending' = n.pending
           /\ loaded' = n.loaded
           /\ entities' = n.entities
           /\ loadedEvents' = n.events
    /\ started' = <<>>
    /\ removed' = {}
    /\ UNCHANGED <<cam, files, tiles, desired, tasks, unloadedEvents,
                   integBudget, buildBudget, lastFetch, call, ret, props>>

(* ---------------------------- HeightmapData ---------------------------- *)
\* the HeightmapData resource built by TerrainPlugin, for the modelled lattice
TerrainData(flip) ==
    [size         |-> <<ChunkSizeX * TilesX, ChunkSizeZ>>,
     origin       |-> <<OriginX, OriginZ>>,
     height_scale |-> HEIGHT_SCALE_METERS,
     chunk_size   |-> <<ChunkSizeX, ChunkSizeZ>>,
     raw_minmax   |-> <<RAW_MIN, RAW_MAX>>,
     flip_v       |-> flip]

\* i32::clamp
Clamp(a, lo, hi) == Max(lo, Min(a, hi))

\* Tile16::get_clamped (data is row-major, sequences start at 1)
get_clamped(t, x, y) ==
    LET xi == Clamp(x, 0, t.res[1] - 1)
        yi == Clamp(y, 0, t.res[2] - 1)
    IN  t.data[yi * t.res[1] + xi + 1]

(* ---------------------------- mesh building ---------------------------- *)
chunk_world_aabb(cx, cz, data) ==
    LET min_x == data.origin[1] + cx * data.chunk_size[1]
        min_z == data.origin[2] + cz * data.chunk_size[2]
    IN  [min |-> <<min_x, min_z>>,
         max |-> <<min_x + data.chunk_size[1], min_z + data.chunk_size[2]>>]

\* bilinear interpolation with the two weights of the x axis exchanged
Bilinear_swapped(tile, px_f, pz_f) ==
    LET x_max == Max(tile.res[1] - 1, 0)
        z_max == Max(tile.res[2] - 1, 0)
        x0 == QFloor(px_f)
        z0 == QFloor(pz_f)
        x1 == Min(x0 + 1, x_max)
        z1 == Min(z0 + 1, z_max)
        dx == QSub(px_f, QInt(x0))
        dz == QSub(pz_f, QInt(z0))
        one == QInt(1)
        s00 == QInt(get_clamped(tile, x0, z0))
        s10 == QInt(get_clamped(tile, x1, z0))
        s01 == QInt(get_clamped(tile, x0, z1))
        s11 == QInt(get_clamped(tile, x1, z1))
        a == QAdd(QMul(s10, QSub(one, dx)), QMul(s00, dx))
        b == QAdd(QMul(s11, QSub(one, dx)), QMul(s01, dx))
    IN  QAdd(QMul(a, QSub(one, dz)), QMul(b, dz))

\* bilinear interpolation of the four samples around (px_f, pz_f), clamped
\* to the tile (lines 287 to 303; sample_height lines 176 to 197)
Bilinear(tile, px_f, pz_f) ==
    LET x_max == Max(tile.res[1] - 1, 0)
        z_max == Max(tile.res[2] - 1, 0)
        x0 == QFloor(px_f)
        z0 == QFloor(pz_f)
        x1 == Min(x0 + 1, x_max)
        z1 == Min(z0 + 1, z_max)
        dx == QSub(px_f, QInt(x0))
        dz == QSub(pz_f, QInt(z0))
        one == QInt(1)
        s00 == QInt(get_clamped(tile, x0, z0))
        s10 == QInt(get_clamped(tile, x1, z0))
        s01 == QInt(get_clamped(tile, x0, z1))
        s11 == QInt(get_clamped(tile, x1, z1))
        a == QAdd(QMul(s00, QSub(one, dx)), QMul(s10, dx))
        b == QAdd(QMul(s01, QSub(one, dx)), QMul(s11, dx))
    IN  QAdd(QMul(a, QSub(one, dz)), QMul(b, dz))

\* a sampler that never looks at the neighbour tiles
sample_raw_ownTile(snap, nx, nz, u0, v0, i, j) ==
    LET u == QClamp(u0, QInt(0), QInt(1))
        v == QClamp(v0, QInt(0), QInt(1))
        tx_max == Max(snap.cur.res[1] - 1, 0)
        tz_max == Max(snap.cur.res[2] - 1, 0)
    IN  Bilinear(snap.cur, QMul(u, QInt(tx_max)), QMul(v, QInt(tz_max)))

\* the closure sample_raw; snap holds cur, right, up and up_right.  An edge
\* vertex returns the nearest sample of the neighbour when that neighbour is
\* there (lines 271 to 285); every other vertex falls through to the
\* bilinear sample of the own tile (lines 287 to 303)
sample_raw(snap, nx, nz, u0, v0, i, j) ==
    LET u == QClamp(u0, QInt(0), QInt(1))
        v == QClamp(v0, QInt(0), QInt(1))
        tx_max == Max(snap.cur.res[1] - 1, 0)
        tz_max == Max(snap.cur.res[2] - 1, 0)
        right_edge == i = nx - 1
        top_edge == j = nz - 1
    IN  IF right_edge /\ top_edge /\ snap.up_right # None
          THEN QInt(get_clamped(snap.up_right[1], 0, 0))
        ELSE IF right_edge /\ ~top_edge /\ snap.right # None
          THEN QInt(get_clamped(snap.right[1], 0,
                                QRound(QMul(v, QInt(tz_max)))))
        ELSE IF top_edge /\ ~right_edge /\ snap.up # None
          THEN QInt(get_clamped(snap.up[1],
                                QRound(QMul(u, QInt(tx_max))), 0))
        ELSE Bilinear(snap.cur, QMul(u, QInt(tx_max)), QMul(v, QInt(tz_max)))

\* the closure sample_h: normalise the raw sample, clamp, scale
sample_h(snap, data, nx, nz, u, v, i, j) ==
    LET rmin == data.raw_minmax[1]
        rmax == data.raw_minmax[2]
        inv_span == IF rmax > rmin THEN Q(1, rmax - rmin) ELSE QInt(0)
    IN  QMul(QClamp(QMul(QSub(sample_raw(snap, nx, nz, u, v, i, j),
                              QInt(rmin)),
                         inv_span),
                    QInt(0), QInt(1)),
             QInt(data.height_scale))

\* one vertex of the grid: position, normal before normalize_or_zero, uv.
\* The normal is (-dpx, 1, -dpz) with dpx = (hr - hl) / (2 du width) and
\* dpz = (hu - hd) / (2 dv depth), the heights of the four neighbours
Vertex(snap, data, cx, cz, nx, nz, i, j) ==
    LET box == chunk_world_aabb(cx, cz, data)
        width == box.max[1] - box.min[1]
        depth == box.max[2] - box.min[2]
        du == Q(1, nx - 1)
        dv == Q(1, nz - 1)
        u == Q(i, nx - 1)
        v == Q(j, nz - 1)
        wx == QAdd(QInt(box.min[1]), QMul(u, QInt(width)))
        wz == QAdd(QInt(box.min[2]), QMul(v, QInt(depth)))
    IN  [position |-> <<wx, sample_h(snap, data, nx, nz, u, v, i, j), wz>>,
         normal   |->
            <<QSub(QInt(0),
                   QDiv(QSub(sample_h(snap, data, nx, nz,
                                      QMin(QAdd(u, du), QInt(1)), v,
                                      Min(i + 1, nx - 1), j),
                             sample_h(snap, data, nx, nz,
                                      QMax(QSub(u, du), QInt(0)), v,
                                      Max(i - 1, 0), j)),
                        QMul(QInt(2 * width), du))),
              QInt(1),
              QSub(QInt(0),
                   QDiv(QSub(sample_h(snap, data, nx, nz,
                                      u, QMin(QAdd(v, dv), QInt(1)),
                                      i, Min(j + 1, nz - 1)),
                             sample_h(snap, data, nx, nz,
                                      u, QMax(QSub(v, dv), QInt(0)),
                                      i, Max(j - 1, 0))),
                        QMul(QInt(2 * depth), dv)))>>,
         uv       |-> <<u, v>>]

\* the six indices of a grid cell with the second triangle wound the other
\* way round
CellIndices_flipped(nx, i, j) ==
    LET i0 == j * nx + i
        i1 == j * nx + i + 1
        i2 == (j + 1) * nx + i
        i3 == (j + 1) * nx + i + 1
    IN  <<i0, i2, i1, i1, i3, i2>>

\* the six indices of grid cell (i, j)
CellIndices(nx, i, j) ==
    LET i0 == j * nx + i
        i1 == j * nx + i + 1
        i2 == (j + 1) * nx + i
        i3 == (j + 1) * nx + i + 1
    IN  <<i0, i2, i1, i1, i2, i3>>

\* build_chunk_mesh_from_tiles: vertices row by row, then two triangles per
\* cell.  The three vertex attributes are kept together, one record per
\* vertex, and the normal is the vector handed to normalize_or_zero.
build_chunk_mesh_from_tiles(cx, cz, grid, data, cur, right, up, up_right) ==
    LET nx == Max(grid[1], 2)
        nz == Max(grid[2], 2)
        snap == [cur |-> cur, right |-> right, up |-> up,
                 up_right |-> up_right]
    IN  Some([vertices |-> [k \in 1..(nx * nz) |->
                               Vertex(snap, data, cx, cz, nx, nz,
                                      (k - 1) % nx, (k - 1) \div nx)],
              indices  |-> [k \in 1..(6 * (nx - 1) * (nz - 1)) |->
                               LET c == (k - 1) \div 6
                               IN  CellIndices(nx, c % (nx - 1),
                                               c \div (nx - 1))[((k - 1) % 6) + 1]]])

\* debug_fallback_quad: one flat quad over the chunk's footprint
debug_fallback_quad(cx, cz, data) ==
    LET box == chunk_world_aabb(cx, cz, data)
        x0 == QInt(box.min[1])
        z0 == QInt(box.min[2])
        x1 == QInt(box.min[1] + (box.max[1] - box.min[1]))
        z1 == QInt(box.min[2] + (box.max[2] - box.min[2]))
        zero == QInt(0)
        one == QInt(1)
        up == <<zero, one, zero>>
    IN  [vertices |->
            << [position |-> <<x0, zero, z0>>, normal |-> up,
                uv |-> <<zero, zero>>],
               [position |-> <<x1, zero, z0>>, normal |-> up,
                uv |-> <<one, zero>>],
               [position |-> <<x0, zero, z1>>, normal |-> up,
                uv |-> <<zero, one>>],
               [position |-> <<x1, zero, z1>>, normal |-> up,
                uv |-> <<one, one>>] >>,
         indices |-> <<0, 2, 1, 1, 2, 3>>]

\* Option::unwrap_or_else
unwrap_or_else(opt, fallback) == IF opt # None THEN opt[1] ELSE fallback

\* the job body of lines 137 to 142: the built mesh, or the fallback quad
\* when the builder returns None
ChunkMeshJob(cx, cz, grid, data, cur, right, up, up_right) ==
    unwrap_or_else(build_chunk_mesh_from_tiles(cx, cz, grid, data,
                                               cur, right, up, up_right),
                   debug_fallback_quad(cx, cz, data))

(* ---------------------------- sample_height ---------------------------- *)
\* interpolate in the tile and scale, with the normalised value left
\* unclamped
HeightInTile_noClamp(tile, local_x, local_z, data) ==
    LET u == QClamp(Q(local_x, data.chunk_size[1]), QInt(0), QInt(1))
        v == QClamp(Q(local_z, data.chunk_size[2]), QInt(0), QInt(1))
        max_x == Max(tile.res[1] - 1, 0)
        max_y == Max(tile.res[2] - 1, 0)
        raw == Bilinear(tile, QMul(u, QInt(max_x)), QMul(v, QInt(max_y)))
        rmin == data.raw_minmax[1]
        rmax == data.raw_minmax[2]
        norm == IF rmax > rmin
                  THEN QDiv(QSub(raw, QInt(rmin)), QInt(rmax - rmin))
                  ELSE QInt(0)
    IN  QMul(norm, QInt(data.height_scale))

\* lines 168 to 207: interpolate in the tile, normalise, scale
HeightInTile(tile, local_x, local_z, data) ==
    LET u == QClamp(Q(local_x, data.chunk_size[1]), QInt(0), QInt(1))
        v == QClamp(Q(local_z, data.chunk_size[2]), QInt(0), QInt(1))
        max_x == Max(tile.res[1] - 1, 0)
        max_y == Max(tile.res[2] - 1, 0)
        raw == Bilinear(tile, QMul(u, QInt(max_x)), QMul(v, QInt(max_y)))
        rmin == data.raw_minmax[1]
        rmax == data.raw_minmax[2]
        norm == IF rmax > rmin
                  THEN QClamp(QDiv(QSub(raw, QInt(rmin)), QInt(rmax - rmin)),
                              QInt(0), QInt(1))
                  ELSE QInt(0)
    IN  QMul(norm, QInt(data.height_scale))

\* sample_height without the test of lines 148 to 150
sample_height_noBounds(world_x, world_z, data, cache, fs) ==
    LET lx == world_x - data.origin[1]
        lz0 == world_z - data.origin[2]
        lz == IF data.flip_v THEN data.size[2] - lz0 ELSE lz0
        cx == FloorDiv(lx, data.chunk_size[1])
        cz == FloorDiv(lz, data.chunk_size[2])
        tile == fetch_tile(cache, fs, <<cx, cz>>)
    IN  IF tile = None
          THEN [result |-> None, tiles |-> get_or_load(cache, fs, <<cx, cz>>),
                fetch |-> Some(<<cx, cz>>)]
          ELSE [result |-> Some(HeightInTile(tile[1],
                                             lx - cx * data.chunk_size[1],
                                             lz - cz * data.chunk_size[2],
                                             data)),
                tiles |-> get_or_load(cache, fs, <<cx, cz>>),
                fetch |-> Some(<<cx, cz>>)]

\* sample_height: the Option returned, the cache the call leaves and the
\* coordinate it passed to fetch_tile (None when it returned before)
sample_height(world_x, world_z, data, cache, fs) ==
    LET lx == world_x - data.origin[1]
        lz0 == world_z - data.origin[2]
        lz == IF data.flip_v THEN data.size[2] - lz0 ELSE lz0
        cx == FloorDiv(lx, data.chunk_size[1])
        cz == FloorDiv(lz, data.chunk_size[2])
        tile == fetch_tile(cache, fs, <<cx, cz>>)
    IN  IF lx < 0 \/ lz0 < 0 \/ lx >= data.size[1] \/ lz0 >= data.size[2]
          THEN [result |-> None, tiles |-> cache, fetch |-> None]
        ELSE IF tile = None
          THEN [result |-> None, tiles |-> get_or_load(cache, fs, <<cx, cz>>),
                fetch |-> Some(<<cx, cz>>)]
          ELSE [result |-> Some(HeightInTile(tile[1],
                                             lx - cx * data.chunk_size[1],
                                             lz - cz * data.chunk_size[2],
                                             data)),
                tiles |-> get_or_load(cache, fs, <<cx, cz>>),
                fetch |-> Some(<<cx, cz>>)]

(* ---------------------------- environment ------------------------------ *)
\* async_receive_chunks reads neither the camera nor the files, so
\* a change of those between the two systems of a frame has the effect of
\* the same change after the frame: the environment acts between frames.
\* Events::update drops the events of a frame when the next frame starts.
\* The scheduler sees a tile file only through fetch_tile of an uncached
\* coordinate, so next to the scheduler tile files only appear; SpecTiles
\* changes and removes them.
\* camera positions tried: the start position of setup.rs (rounded to
\* integers) and a position over the lattice and one far outside it, on the ground
StartCam == [x |-> -3, y |-> 2200, z |-> 9]
CamPositions ==
    {StartCam,
     [x |-> 256, y |-> 0, z |-> 256],
     [x |-> -1536, y |-> 0, z |-> 256]}

\* camera_controller moves the MainCamera
MoveCamera ==
    /\ phase = "schedule"
    /\ \E p \in CamPositions : p # cam /\ cam' = p
    /\ UNCHANGED <<files, tiles, desired, loaded, tasks, pending, entities,
                   loadedEvents, unloadedEvents, integBudget, buildBudget,
                   phase, started, removed, lastFetch, call, ret, props>>

\* a tile file appears, changes or disappears on disk
WriteFile(coords, choices) ==
    /\ phase = "schedule"
    /\ \E c \in coords : \E f \in choices :
          /\ files[c] # f
          /\ files' = [files EXCEPT ![c] = f]
    /\ UNCHANGED <<cam, tiles, desired, loaded, tasks, pending, entities,
                   loadedEvents, unloadedEvents, integBudget, buildBudget,
                   phase, started, removed, lastFetch, call, ret, props>>

\* fetch_tile called by another system (through sample_height)
FetchTile ==
    /\ phase = "schedule"
    /\ \E c \in TileCoords :
          /\ tiles' = get_or_load(tiles, files, c)
          /\ lastFetch' = [coord |-> c, result |-> fetch_tile(tiles, files, c)]
    /\ UNCHANGED <<cam, files, desired, loaded, tasks, pending, entities,
                   loadedEvents, unloadedEvents, integBudget, buildBudget,
                   phase, started, removed, call, ret, props>>

(* --------------------------- specifications ---------------------------- *)
NoFetch == [coord |-> <<-1, -1>>, result |-> None]
EmptyMap == [k \in {} |-> 0]
NoCall == [fn |-> "none"]

\* the props plugin before any event: registry not consulted, nothing queued
NoProps ==
    [registry  |-> <<>>,
     events    |-> <<>>,
     asyncRead |-> 0,
     vegRead   |-> 0,
     tasks     |-> EmptyMap,
     pushed    |-> <<>>]

\* nothing streamed yet: empty ChunkManager and AsyncChunkLoader, no events
NothingStreamed ==
    /\ cam = StartCam
    /\ desired = EmptyMap
    /\ loaded = EmptyMap
    /\ tasks = <<>>
    /\ pending = <<>>
    /\ entities = EmptyMap
    /\ loadedEvents = <<>>
    /\ unloadedEvents = <<>>
    /\ phase = "schedule"
    /\ started = <<>>
    /\ removed = {}
    /\ lastFetch = NoFetch

Init ==
    /\ NothingStreamed
    /\ \E on \in SUBSET LatticeKeys :
          files = [c \in FetchCoords |-> IF c \in on THEN FileA ELSE NoFile]
    /\ tiles = EmptyMap
    /\ integBudget \in 1..MaxIntegBudget
    /\ buildBudget \in {None} \cup {Some(b) : b \in 0..MaxBuildBudget}
    /\ call = NoCall
    /\ ret = None
    /\ props = NoProps

Next ==
    \/ async_schedule_chunks
    \/ async_receive_chunks
    \/ MoveCamera
    \/ WriteFile(LatticeKeys, NewFiles)

Spec == Init /\ [][Next]_vars

\* The two systems are chained in Update and run in every frame; a mesh job
\* is a terminating loop on the AsyncComputeTaskPool, so again and again a
\* pass finds every job it polls finished.
AllJobsFinished == async_schedule_chunks /\ tasks' = <<>>

SpecFair ==
    /\ Spec
    /\ WF_vars(async_schedule_chunks)
    /\ WF_vars(async_receive_chunks)
    /\ SF_vars(AllJobsFinished)

\* the tile store alone: two tiles, richer files, fetches from any caller
InitTiles ==
    /\ Init
    /\ integBudget = 1
    /\ buildBudget = None

NextTiles ==
    \/ WriteFile(TileCoords, AllFiles)
    \/ FetchTile

SpecTiles == InitTiles /\ [][NextTiles]_vars

\* the mesh builder alone: a cache of decoded tiles, a grid resolution, and
\* the launch iteration of lines 126 to 146 run for the chunks (0,0), (1,0)
streamVars == <<cam, desired, loaded, tasks, pending, entities, loadedEvents,
                unloadedEvents, integBudget, buildBudget, phase, started,
                removed, lastFetch>>

MaxGrid == 3
TileA == load_raw16(FileA)[1]
TileB == load_raw16(FileB)[1]
MeshChunks == {<<0, 0>>, <<1, 0>>}
MeshCoords == {<<cx, cz>> : cx \in 0..2, cz \in {0, 1}}

\* the caches tried: every tile absent or decoded from FileA, the tile of
\* chunk (1,0) also decoded from FileB
MeshCaches ==
    UNION {{c \in [on -> {TileA, TileB}] :
               \A k \in on : c[k] = TileB => k = <<1, 0>>} :
           on \in SUBSET MeshCoords}

InitMesh ==
    /\ NothingStreamed
    /\ files = [c \in MeshCoords |-> NoFile]
    /\ tiles \in MeshCaches
    /\ integBudget = 1
    /\ buildBudget = None
    /\ call \in {[grid_res |-> <<nx, nz>>] : nx, nz \in 2..MaxGrid}
    /\ ret = EmptyMap
    /\ props = NoProps

\* one launch iteration for `key` with the job run to its end: None when
\* the iteration submits no job, else the mesh the job returns
LaunchIteration(key) ==
    /\ key \notin DOMAIN ret
    /\ \E a \in {AdmitStep(key, "Near", files,
                            [tasks |-> <<>>, tiles |-> tiles,
                             started |-> <<>>])} :
          /\ tiles' = a.tiles
          /\ \E m \in {IF a.started = <<>> THEN None
                        ELSE Some(ChunkMeshJob(
                                 key[1], key[2], call.grid_res,
                                 TerrainData(TRUE),
                                 fetch_tile(tiles, files, key)[1],
                                 fetch_tile(tiles, files, <<key[1] + 1, key[2]>>),
                                 fetch_tile(tiles, files, <<key[1], key[2] + 1>>),
                                 fetch_tile(tiles, files,
                                            <<key[1] + 1, key[2] + 1>>)))} :
                ret' = [k \in DOMAIN ret \cup {key} |->
                           IF k = key THEN m ELSE ret[k]]
    /\ UNCHANGED <<files, call, props>>
    /\ UNCHANGED streamVars

NextMesh == \E key \in MeshChunks : LaunchIteration(key)

SpecMesh == InitMesh /\ [][NextMesh]_vars

\* level of detail alone: the scheduler over a lattice without tile files,
\* a viewer that moves in all three axes, and LodLevel::pick called on
\* distances around its thresholds
LodCams ==
    {[x |-> px, y |-> py, z |-> pz] :
        px \in {-1536, -3, 256, 900},
        py \in {0, 700, 2200},
        pz \in {9, 256, 956, 2000}}

Distances == {0, 300, 599, 600, 601, 900, 1199, 1200, 1201, 5000}

InitLod ==
    /\ NothingStreamed
    /\ files = [c \in FetchCoords |-> NoFile]
    /\ tiles = EmptyMap
    /\ integBudget = 1
    /\ buildBudget = None
    /\ call = NoCall
    /\ ret = None
    /\ props = NoProps

MoveViewer ==
    /\ phase = "schedule"
    /\ \E p \in LodCams : p # cam /\ cam' = p
    /\ UNCHANGED <<files, tiles, desired, loaded, tasks, pending, entities,
                   loadedEvents, unloadedEvents, integBudget, buildBudget,
                   phase, started, removed, lastFetch, call, ret, props>>

\* LodLevel::pick(distance) and grid_res of the tier it returns
PickLod ==
    /\ \E d \in Distances :
          /\ call' = [fn |-> "pick", distance |-> d]
          /\ ret' = Some([lod |-> pick(d * d), grid |-> grid_res(pick(d * d))])
    /\ UNCHANGED <<files, tiles, props>>
    /\ UNCHANGED streamVars

NextLod ==
    \/ async_schedule_chunks
    \/ async_receive_chunks
    \/ MoveViewer
    \/ PickLod

SpecLod == InitLod /\ [][NextLod]_vars

\* the height query alone: files that do not change, among them one whose
\* first sample is 65535, and queries on and around the terrain
FileTop ==
    OnDisk([k \in 1..ExpectedBytes |-> IF k <= 2 THEN 255 ELSE (k * 53) % 256])

SampleFiles == {NoFile, FileA, FileTop}
SampleCoords == {<<0, 0>>, <<0, 1>>}
SampleXs == {-128, 0, 128, 256, 384, 512}
SampleZs == {-128, 0, 256, 384, 512}

InitSample ==
    /\ NothingStreamed
    /\ \E f \in [SampleCoords -> SampleFiles] :
          files = [c \in FetchCoords |->
                     IF c \in SampleCoords THEN f[c] ELSE NoFile]
    /\ tiles = EmptyMap
    /\ integBudget = 1
    /\ buildBudget = None
    /\ call = NoCall
    /\ ret = None
    /\ props = NoProps

SampleHeight ==
    /\ \E x \in SampleXs, z \in SampleZs, flip \in BOOLEAN :
          \E r \in {sample_height(x, z, TerrainData(flip), tiles, files)} :
             /\ call' = [fn |-> "sample_height", x |-> x, z |-> z,
                         flip_v |-> flip, fetch |-> r.fetch]
             /\ ret' = r.result
             /\ tiles' = r.tiles
    /\ UNCHANGED <<files, props>>
    /\ UNCHANGED streamVars

NextSample == SampleHeight

SpecSample == InitSample /\ [][NextSample]_vars

(* ------------------------------- props -------------------------------- *)
\* props is a record: registry (the category of each archetype, by index),
\* events (every TerrainChunkLoaded sent, by chunk coordinate), asyncRead and
\* vegRead (how many of them each EventReader has read), tasks
\* (PropPlacementTasks.tasks, each task with the results it returns) and
\* pushed (the id of every SpawnRequest pushed to SpawnQueue.items, in order)
MaxLoads == 3
PlaceCount == 1

make_prop_id(chunk, local_index, archetype_index) ==
    [chunk |-> chunk, local |-> local_index, archetype |-> archetype_index]

\* the ids of one chunk and one archetype: the probes of strat.place carry
\* the local indices 0 .. PlaceCount - 1 and no filter rejects them
PlacedIds(coord, arche) ==
    [l \in 1..PlaceCount |-> make_prop_id(coord, l - 1, arche)]

\* flatten a sequence of sequences
RECURSIVE Concat(_)
Concat(ss) == IF ss = <<>> THEN <<>> ELSE Head(ss) \o Concat(Tail(ss))

\* the body of a placement task: run_placement_for_chunk for every archetype
PlacementTask(coord, registry) ==
    Concat([i \in 1..Len(registry) |-> PlacedIds(coord, i - 1)])

\* what spawn_veg_on_chunk_loaded pushes for one event
VegRequests(coord, registry) ==
    Concat([i \in 1..Len(registry) |->
               IF registry[i] = "vegetation" THEN PlacedIds(coord, i - 1)
               ELSE <<>>])

\* the event loop of schedule_async_placement_tasks
RECURSIVE SpawnTasks(_, _, _)
SpawnTasks(evs, tk, registry) ==
    IF evs = <<>> THEN tk
    ELSE LET coord == Head(evs)
         IN  IF coord \in DOMAIN tk
               THEN SpawnTasks(Tail(evs), tk, registry)
               ELSE SpawnTasks(Tail(evs),
                               [c \in DOMAIN tk \cup {coord} |->
                                   IF c = coord
                                     THEN PlacementTask(coord, registry)
                                     ELSE tk[c]],
                               registry)

Unread(evs, n) == SubSeq(evs, n + 1, Len(evs))

\* async_receive_chunks sends TerrainChunkLoaded for an integrated chunk,
\* one per frame with the default IntegrationBudget; both readers run in
\* every frame, so they have read the events of the frames before
SendChunkLoaded ==
    /\ Len(props.events) < MaxLoads
    /\ props.asyncRead = Len(props.events)
    /\ props.vegRead = Len(props.events)
    /\ \E key \in LatticeKeys :
          props' = [props EXCEPT !.events = Append(@, key)]
    /\ UNCHANGED <<files, tiles, call, ret>>
    /\ UNCHANGED streamVars

schedule_async_placement_tasks ==
    /\ props.asyncRead < Len(props.events)
    /\ props' = [props EXCEPT
                    !.tasks = SpawnTasks(Unread(props.events, props.asyncRead),
                                         props.tasks, props.registry),
                    !.asyncRead = Len(props.events)]
    /\ UNCHANGED <<files, tiles, call, ret>>
    /\ UNCHANGED streamVars

\* the tasks in `done` have finished; retain visits them in the order `o`
collect_placement_results ==
    /\ \E done \in SUBSET DOMAIN props.tasks :
          /\ done # {}
          /\ \E o \in Orders(done) :
                props' = [props EXCEPT
                             !.pushed = @ \o Concat([n \in 1..Len(o) |->
                                                       props.tasks[o[n]]]),
                             !.tasks = RemoveKeys(@, done)]
    /\ UNCHANGED <<files, tiles, call, ret>>
    /\ UNCHANGED streamVars

spawn_veg_on_chunk_loaded ==
    /\ props.vegRead < Len(props.events)
    /\ LET evs == Unread(props.events, props.vegRead)
       IN  props' = [props EXCEPT
                        !.pushed = @ \o Concat([n \in 1..Len(evs) |->
                                       VegRequests(evs[n], props.registry)]),
                        !.vegRead = Len(props.events)]
    /\ UNCHANGED <<files, tiles, call, ret>>
    /\ UNCHANGED streamVars

\* registries tried: archetypes by category
Registries ==
    {<<"vegetation">>, <<"building">>, <<"building", "vegetation">>}

InitProps ==
    /\ NothingStreamed
    /\ files = [c \in FetchCoords |-> NoFile]
    /\ tiles = EmptyMap
    /\ integBudget = 1
    /\ buildBudget = None
    /\ call = NoCall
    /\ ret = None
    /\ \E reg \in Registries : props = [NoProps EXCEPT !.registry = reg]

NextProps ==
    \/ SendChunkLoaded
    \/ schedule_async_placement_tasks
    \/ collect_placement_results
    \/ spawn_veg_on_chunk_loaded

SpecProps == InitProps /\ [][NextProps]_vars

(* ----------------------------- placement ------------------------------- *)
\* The random number generator is the sequence of its draws, each in 0..3;
\* when the sequence is used up every further draw is 0.  A draw picks the
\* active sample (modulo the length of the active list); the draws of one
\* candidate are one draw, and the candidate is far enough from every
\* sample when that draw is 2 or 3.
MaxCap == 2
MaxDraws == 3
MaxTries == 2

Draw(rand) == IF rand = <<>> THEN 0 ELSE Head(rand)
Rest(rand) == IF rand = <<>> THEN <<>> ELSE Tail(rand)

\* placement/mod.rs make_probe, without the coordinates
make_probe(local, site) == [local_index |-> local, site |-> site]

\* GridPlacement::place, lines 54 to 74: the loop over the cells, row by
\* row, left when the output has reached the cap (line 56)
RECURSIVE GridLoop(_, _, _, _, _)
GridLoop(out, k, nx, nz, cap) ==
    IF k >= nx * nz \/ Len(out) >= cap THEN out
    ELSE GridLoop(Append(out, make_probe(Len(out), <<k % nx, k \div nx>>)),
                  k + 1, nx, nz, cap)

GridPlace(cell, cap, size) ==
    LET nx == Max(FloorDiv(size[1], cell), 1)
        nz == Max(FloorDiv(size[2], cell), 1)
    IN  GridLoop(<<>>, 0, nx, nz, cap)

\* PoissonPlacement::place, lines 89 to 124: the tries around one base; the
\* cap is tested only after a candidate has been pushed (line 122)
RECURSIVE TryLoop(_, _, _, _, _)
TryLoop(st, base, t, tries, cap) ==
    IF t > tries THEN st
    ELSE IF Draw(st.rand) >= 2
      THEN LET next_i == Len(st.samples)
               st2 == [samples |-> Append(st.samples, base),
                       active  |-> Append(st.active, next_i),
                       rand    |-> Rest(st.rand),
                       found   |-> TRUE]
           IN  IF Len(st2.samples) >= cap THEN st2
               ELSE TryLoop(st2, base, t + 1, tries, cap)
      ELSE TryLoop([st EXCEPT !.rand = Rest(@)], base, t + 1, tries, cap)

\* lines 83 to 131: the Bridson loop over the active list; the cap is tested
\* at the end of an iteration (line 130)
RECURSIVE BridsonLoop(_, _, _)
BridsonLoop(st, tries, cap) ==
    IF st.active = <<>> THEN st
    ELSE LET picked == Draw(st.rand) % Len(st.active)
             idx == st.active[picked + 1]
             st1 == TryLoop([st EXCEPT !.rand = Rest(@), !.found = FALSE],
                            idx, 1, tries, cap)
             st2 == IF ~st1.found
                      THEN [st1 EXCEPT !.active = swap_remove(@, picked + 1)]
                      ELSE st1
         IN  IF Len(st2.samples) >= cap THEN st2
             ELSE BridsonLoop(st2, tries, cap)

\* PoissonPlacement::place: seed one sample (lines 72 to 80, no test of the
\* cap), run the loop, number the probes (lines 134 to 141); a sample is
\* recorded as the index of the sample it was found around
PoissonPlace(tries, cap, rand) ==
    LET seeded == [samples |-> <<-1>>, active |-> <<0>>,
                   rand |-> Rest(rand), found |-> FALSE]
        st == BridsonLoop(seeded, Max(tries, 1), cap)
    IN  [k \in 1..Len(st.samples) |-> make_probe(k - 1, st.samples[k])]

\* the placement strategies alone
GridCells == {128, 256, 512, 1000}
RandomSequences == UNION {[1..n -> 0..3] : n \in 0..MaxDraws}

InitPlace ==
    /\ NothingStreamed
    /\ files = [c \in FetchCoords |-> NoFile]
    /\ tiles = EmptyMap
    /\ integBudget = 1
    /\ buildBudget = None
    /\ \/ \E cell \in GridCells, cap \in 0..MaxCap :
             call = [fn |-> "GridPlacement::place", cell |-> cell, cap |-> cap]
       \/ \E tries \in 1..MaxTries, cap \in 0..MaxCap, rand \in RandomSequences :
             call = [fn |-> "PoissonPlacement::place", tries |-> tries,
                     cap |-> cap, rand |-> rand]
    /\ ret = None
    /\ props = NoProps

GridPlacement_place ==
    /\ call.fn = "GridPlacement::place"
    /\ ret = None
    /\ ret' = Some(GridPlace(call.cell, call.cap, <<ChunkSizeX, ChunkSizeZ>>))
    /\ UNCHANGED <<files, tiles, call, props>>
    /\ UNCHANGED streamVars

PoissonPlacement_place ==
    /\ call.fn = "PoissonPlacement::place"
    /\ ret = None
    /\ ret' = Some(PoissonPlace(call.tries, call.cap, call.rand))
    /\ UNCHANGED <<files, tiles, call, props>>
    /\ UNCHANGED streamVars

NextPlace ==
    \/ GridPlacement_place
    \/ PoissonPlacement_place

SpecPlace == InitPlace /\ [][NextPlace]_vars

(* ------------------------------ build job ------------------------------ *)
\* One mesh job from its submission to its end, with the main world going on
\* in between.  call is the state the async block of lines 139 to 142 has
\* moved into itself: the key, the grid, the copy of HeightmapData and the
\* four tile handles; `seen` is the tile cache and the files as they were when
\* the launch iteration ran.  A Tile16 holds its pixels in an Arc<Vec<u16>>
\* that nothing writes to after load_raw16 has built it.
\* lod.grid_res() of line 137, on grids small enough to build every mesh
JobGrid(lod) == IF lod = "Near" THEN <<MaxGrid, MaxGrid>> ELSE <<2, 2>>

InitJob ==
    /\ NothingStreamed
    /\ files = [c \in MeshCoords |-> IF c = <<0, 0>> THEN FileA ELSE NoFile]
    /\ tiles = EmptyMap
    /\ integBudget = 1
    /\ buildBudget = None
    /\ call = NoCall
    /\ ret = None
    /\ props = NoProps

\* the launch iteration of lines 129 to 146 for `key`
SubmitJob ==
    /\ call = NoCall
    /\ \E key \in MeshChunks, lod \in {"Near", "Far"} :
       \E a \in {AdmitStep(key, lod, files,
                           [tasks |-> tasks, tiles |-> tiles,
                            started |-> <<>>])} :
          /\ tiles' = a.tiles
          /\ tasks' = a.tasks
          /\ call' = IF a.started = <<>> THEN NoCall
                     ELSE [fn |-> "job", cx |-> key[1], cz |-> key[2],
                           lod |-> lod, grid |-> JobGrid(lod),
                           data |-> TerrainData(TRUE),
                           cur |-> fetch_tile(tiles, files, key)[1],
                           right |-> fetch_tile(tiles, files,
                                                <<key[1] + 1, key[2]>>),
                           up |-> fetch_tile(tiles, files,
                                             <<key[1], key[2] + 1>>),
                           up_right |-> fetch_tile(tiles, files,
                                                   <<key[1] + 1, key[2] + 1>>),
                           seen |-> [tiles |-> tiles, files |-> files]]
    /\ UNCHANGED <<cam, files, desired, loaded, pending, entities,
                   loadedEvents, unloadedEvents, integBudget, buildBudget,
                   phase, started, removed, lastFetch, ret, props>>

\* the job runs to its end on the task pool, but for what it was handed it
\* reads the tile cache as it is by then
RunJob_readsCache ==
    /\ call # NoCall
    /\ ret = None
    /\ fetch_tile(tiles, files, <<call.cx, call.cz>>) # None
    /\ ret' = Some(ChunkMeshJob(
                     call.cx, call.cz, call.grid, call.data,
                     fetch_tile(tiles, files, <<call.cx, call.cz>>)[1],
                     fetch_tile(tiles, files, <<call.cx + 1, call.cz>>),
                     fetch_tile(tiles, files, <<call.cx, call.cz + 1>>),
                     fetch_tile(tiles, files, <<call.cx + 1, call.cz + 1>>)))
    /\ UNCHANGED <<cam, files, tiles, desired, loaded, tasks, pending,
                   entities, loadedEvents, unloadedEvents, integBudget,
                   buildBudget, phase, started, removed, lastFetch, call,
                   props>>

\* the job runs to its end on the task pool: the future of lines 139 to 142
RunJob ==
    /\ call # NoCall
    /\ ret = None
    /\ ret' = Some(ChunkMeshJob(call.cx, call.cz, call.grid, call.data,
                                call.cur, call.right, call.up, call.up_right))
    /\ UNCHANGED <<cam, files, tiles, desired, loaded, tasks, pending,
                   entities, loadedEvents, unloadedEvents, integBudget,
                   buildBudget, phase, started, removed, lastFetch, call,
                   props>>

NextJob ==
    \/ SubmitJob
    \/ RunJob
    \/ MoveCamera
    \/ WriteFile(TileCoords, {NoFile, FileA})
    \/ FetchTile

SpecJob == InitJob /\ [][NextJob]_vars

(* ------------------------------ admission ------------------------------ *)
\* Steps 2 to 4 of async_schedule_chunks on two chunks side by side, for
\* every desired map step 1 can have left over them.  The pass starts from a
\* ChunkManager and an AsyncChunkLoader as earlier passes leave them: at
\* most one queued entry per key and tier, none at the resident tier of its
\* key, one entity per resident record.
LaunchKeys == {<<0, 0>>, <<1, 0>>}
LaunchCoords == {<<cx, cz>> : cx \in 0..2, cz \in {0, 1}}
LaunchTiers == {"Near", "Far"}
LaunchJobs ==
    {[cx |-> k[1], cz |-> k[2], lod |-> l] : k \in LaunchKeys, l \in LaunchTiers}
TierMaps == UNION {[on -> LaunchTiers] : on \in SUBSET LaunchKeys}
QueuedLists == {<<>>} \cup {<<j>> : j \in LaunchJobs}

InitLaunch ==
    /\ cam = StartCam
    /\ \E on \in SUBSET LaunchKeys :
          files = [c \in LaunchCoords |-> IF c \in on THEN FileA ELSE NoFile]
    /\ tiles = EmptyMap
    /\ desired \in TierMaps
    /\ \E t \in TierMaps :
          /\ loaded = [k \in DOMAIN t |-> [ent |-> k[1] + 1, lod |-> t[k]]]
          /\ entities = [e \in {k[1] + 1 : k \in DOMAIN t} |->
                            [cx |-> e - 1, cz |-> 0]]
    /\ tasks \in QueuedLists
    /\ pending \in QueuedLists
    /\ \A q \in Range(tasks) : q \notin Range(pending)
    /\ \A q \in Range(tasks) \cup Range(pending) :
          <<q.cx, q.cz>> \in DOMAIN loaded => loaded[<<q.cx, q.cz>>].lod # q.lod
    /\ loadedEvents = <<>>
    /\ unloadedEvents = <<>>
    /\ integBudget = 1
    /\ buildBudget \in {None} \cup {Some(b) : b \in 0..MaxBuildBudget}
    /\ phase = "schedule"
    /\ started = <<>>
    /\ removed = {}
    /\ lastFetch = NoFetch
    /\ call = NoCall
    /\ ret = None
    /\ props = NoProps

\* steps 2, 3 and 4 (lines 82 to 160) for the desired map of step 1; call
\* records the jobs check_ready answered Some for
ReconcileLaunchPoll ==
    /\ phase = "schedule"
    /\ phase' = "receive"
    /\ \E order \in Orders(DOMAIN desired) :
          \E r \in {Reconcile(loaded, desired, tasks, pending, entities)} :
          \E l \in {Launch(order, 1, desired, r.loaded, r.pending, files,
                           buildBudget,
                           [tasks |-> r.tasks, tiles |-> tiles,
                            started |-> <<>>])} :
          \E ready \in SUBSET Range(l.tasks) :
          \E p \in {Poll(l.tasks, r.pending, 1, ready)} :
                    /\ loaded' = r.loaded
                    /\ entities' = r.entities
                    /\ removed' = r.removed
                    /\ tiles' = l.tiles
                    /\ started' = l.started
                    /\ tasks' = p.tasks
                    /\ pending' = p.pending
                    /\ call' = [fn |-> "check_ready", ready |-> ready]
    /\ loadedEvents' = <<>>
    /\ UNCHANGED <<cam, files, desired, unloadedEvents, integBudget,
                   buildBudget, lastFetch, ret, props>>

NextLaunch == ReconcileLaunchPoll

SpecLaunch == InitLaunch /\ [][NextLaunch]_vars

(* ------------------------------ instancing ----------------------------- *)
\* The instancing pipeline of one chunk.  A batch is named by its archetype
\* (InstanceBatches.by_key holds one entity per key), a mesh handle by the
\* archetype it belongs to, a transform by the number of its spawn request,
\* and a merged mesh by the transforms baked into it.  props holds the
\* SpawnQueue, the InstanceBatch components, the DeferredMergeResult entities
\* in spawn order, MergeIntegrationQueue.finished, the assets, and the merge
\* tasks launched in the current frame.
MaxInstances == 3
MaxMerges == 2
SpawnMaxPerFrame == 200
BatchArchs == {0, 1}

otherVars == <<cam, files, tiles, desired, loaded, tasks, pending, entities,
               loadedEvents, unloadedEvents, integBudget, buildBudget,
               started, removed, lastFetch, call, ret>>

resolve_mesh_and_material(req) ==
    IF req.render = "MeshMaterial" THEN Some(req.arch) ELSE None

\* the merged mesh of a snapshot, None for a source mesh without positions
merge_mesh_instances(src, instances) ==
    IF src = "noPositions" THEN None ELSE Some(instances)

clear_build_flags(b, count) ==
    [b EXCEPT !.building = FALSE, !.dirty = FALSE, !.last_built_count = count]

\* lines 34 to 82, with the queued world closures applied in their order
RECURSIVE DrainLoop(_, _, _)
DrainLoop(drained, i, bs) ==
    IF i > Len(drained) THEN bs
    ELSE
      LET req == drained[i]
          mm == resolve_mesh_and_material(req)
          key == req.arch
      IN  IF mm = None THEN DrainLoop(drained, i + 1, bs)
          ELSE DrainLoop(drained, i + 1,
                 [k \in DOMAIN bs \cup {key} |->
                    IF k # key THEN bs[k]
                    ELSE IF key \in DOMAIN bs
                      THEN [bs[key] EXCEPT
                              !.instances = Append(@, req.id),
                              !.dirty = TRUE]
                      ELSE [base_mesh |-> mm[1],
                            instances |-> <<req.id>>,
                            dirty |-> TRUE,
                            last_built_count |-> 0,
                            building |-> FALSE,
                            mesh |-> None]])

drain_spawn_queue_into_batches ==
    /\ phase = "drain"
    /\ phase' = "rebuild"
    /\ LET n == Len(props.queue)
           drain_n == Min(SpawnMaxPerFrame, n)
           start == n - drain_n
       IN  props' = IF n = 0 THEN props
                    ELSE [props EXCEPT
                            !.queue = SubSeq(@, 1, start),
                            !.batches = DrainLoop(
                               SubSeq(props.queue, start + 1, n), 1, @)]
    /\ UNCHANGED otherVars

\* lines 102 to 125: the loop over the batches in query order `order`
RECURSIVE RebuildLoop(_, _, _, _)
RebuildLoop(order, i, assets, acc) ==
    IF i > Len(order) THEN acc
    ELSE IF Len(acc.launched) >= acc.max THEN acc
    ELSE
      LET e == order[i]
          batch == acc.batches[e]
      IN  IF batch.building \/ ~batch.dirty
            THEN RebuildLoop(order, i + 1, assets, acc)
          ELSE IF assets[batch.base_mesh] = "unloaded"
            THEN RebuildLoop(order, i + 1, assets, acc)
          ELSE RebuildLoop(order, i + 1, assets,
                 [acc EXCEPT
                    !.batches[e].building = TRUE,
                    !.launched = Append(@, e),
                    !.deferred = Append(@, [target |-> e,
                                            src |-> assets[batch.base_mesh],
                                            transforms |-> batch.instances])])

rebuild_dirty_batches ==
    /\ phase = "rebuild"
    /\ phase' = "merge"
    /\ \E order \in Orders(DOMAIN props.batches) :
       \E r \in {IF ~props.registry THEN
                   [batches |-> props.batches, deferred |-> props.deferred,
                    launched |-> <<>>, max |-> props.max_merges_per_frame]
                 ELSE RebuildLoop(order, 1, props.assets,
                   [batches |-> props.batches, deferred |-> props.deferred,
                    launched |-> <<>>, max |-> props.max_merges_per_frame])} :
          props' = [props EXCEPT !.batches = r.batches,
                                 !.deferred = r.deferred,
                                 !.launched = r.launched,
                                 !.ran = {}]
    /\ UNCHANGED otherVars

\* lines 141 to 148: `ready` are the tasks poll_once finds finished
RECURSIVE PollLoop(_, _, _, _)
PollLoop(deferred, i, ready, acc) ==
    IF i > Len(deferred) THEN acc
    ELSE
      LET d == deferred[i]
          out == merge_mesh_instances(d.src, d.transforms)
      IN  IF i \notin ready
            THEN PollLoop(deferred, i + 1, ready,
                          [acc EXCEPT !.deferred = Append(@, d)])
          ELSE IF out = None
            THEN PollLoop(deferred, i + 1, ready, acc)
          ELSE PollLoop(deferred, i + 1, ready,
                 [acc EXCEPT !.finished =
                    Append(@, [target |-> d.target, mesh |-> out[1]])])

\* lines 160 to 175
RECURSIVE IntegrateLoop(_, _)
IntegrateLoop(finished, bs) ==
    IF finished = <<>> THEN bs
    ELSE
      LET target == Head(finished).target
          mesh == Head(finished).mesh
      IN  IntegrateLoop(Tail(finished),
            IF target \notin DOMAIN bs THEN bs
            ELSE [bs EXCEPT ![target] =
                    clear_build_flags([@ EXCEPT !.mesh = Some(mesh)],
                                      Len(@.instances))])

\* the systems of the MergeIntegration set run once a frame each, in either
\* order
EndOfSet(ran) == IF ran = {"poll", "integrate"} THEN "drain" ELSE "merge"

poll_merge_tasks ==
    /\ phase = "merge"
    /\ "poll" \notin props.ran
    /\ phase' = EndOfSet(props.ran \cup {"poll"})
    /\ \E ready \in SUBSET (1..Len(props.deferred)) :
       \E r \in {PollLoop(props.deferred, 1, ready,
                          [deferred |-> <<>>, finished |-> props.finished])} :
          props' = [props EXCEPT !.deferred = r.deferred,
                                 !.finished = r.finished,
                                 !.ran = @ \cup {"poll"}]
    /\ UNCHANGED otherVars

integrate_finished_merges ==
    /\ phase = "merge"
    /\ "integrate" \notin props.ran
    /\ phase' = EndOfSet(props.ran \cup {"integrate"})
    /\ props' = [props EXCEPT
                   !.batches = IntegrateLoop(props.finished, @),
                   !.finished = <<>>,
                   !.ran = @ \cup {"integrate"}]
    /\ UNCHANGED otherVars

\* a producer pushes a spawn request before the frame's systems run
EnqueueSpawn ==
    /\ phase = "drain"
    /\ props.next_id <= MaxInstances
    /\ \E a \in BatchArchs, r \in {"MeshMaterial", "Scene"} :
          props' = [props EXCEPT
                      !.queue = Append(@, [id |-> props.next_id, arch |-> a,
                                           render |-> r]),
                      !.next_id = @ + 1]
    /\ UNCHANGED <<phase, otherVars>>

\* the asset server delivers the registry or a base mesh between frames
LoadAsset ==
    /\ phase = "drain"
    /\ \/ /\ ~props.registry
          /\ props' = [props EXCEPT !.registry = TRUE]
       \/ \E a \in BatchArchs, m \in {"ok", "noPositions"} :
             /\ props.assets[a] = "unloaded"
             /\ props' = [props EXCEPT !.assets[a] = m]
    /\ UNCHANGED <<phase, otherVars>>

InitBatch ==
    /\ cam = StartCam
    /\ desired = EmptyMap
    /\ loaded = EmptyMap
    /\ tasks = <<>>
    /\ pending = <<>>
    /\ entities = EmptyMap
    /\ loadedEvents = <<>>
    /\ unloadedEvents = <<>>
    /\ phase = "drain"
    /\ started = <<>>
    /\ removed = {}
    /\ lastFetch = NoFetch
    /\ files = [c \in FetchCoords |-> NoFile]
    /\ tiles = EmptyMap
    /\ integBudget = 1
    /\ buildBudget = None
    /\ call = NoCall
    /\ ret = None
    /\ \E m \in 1..MaxMerges :
          props = [registry |-> FALSE,
                   assets |-> [a \in BatchArchs |-> "unloaded"],
                   queue |-> <<>>,
                   next_id |-> 1,
                   batches |-> EmptyMap,
                   deferred |-> <<>>,
                   finished |-> <<>>,
                   launched |-> <<>>,
                   ran |-> {},
                   max_merges_per_frame |-> m]

NextBatch ==
    \/ EnqueueSpawn
    \/ LoadAsset
    \/ drain_spawn_queue_into_batches
    \/ rebuild_dirty_batches
    \/ poll_merge_tasks
    \/ integrate_finished_merges

SpecBatch == InitBatch /\ [][NextBatch]_vars

(* ---------------------------- normalisation ---------------------------- *)
\* The sampler and the mesh builder over HeightmapData resources whose raw
\* range and vertical scale differ from the ones TerrainPlugin inserts: a
\* range narrower than the samples, an empty range, a reversed range, and a
\* scale of 0.  Each behaviour is one call on one tile cache.
NormData ==
    {[TerrainData(flip) EXCEPT !.raw_minmax = mm, !.height_scale = hs] :
        flip \in BOOLEAN,
        mm \in {<<RAW_MIN, RAW_MAX>>, <<1000, 30000>>, <<500, 500>>,
                <<700, 300>>},
        hs \in {0, HEIGHT_SCALE_METERS}}

InitNorm ==
    /\ NothingStreamed
    /\ \E f \in [SampleCoords -> {NoFile, FileA}] :
          files = [c \in FetchCoords |->
                     IF c \in SampleCoords THEN f[c] ELSE NoFile]
    /\ tiles \in {[c \in on |-> TileA] : on \in SUBSET SampleCoords}
    /\ integBudget = 1
    /\ buildBudget = None
    /\ call = NoCall
    /\ ret = None
    /\ props = NoProps

NormSampleHeight ==
    /\ call = NoCall
    /\ \E x \in SampleXs, z \in SampleZs, data \in NormData :
          \E r \in {sample_height(x, z, data, tiles, files)} :
             /\ call' = [fn |-> "sample_height", x |-> x, z |-> z,
                         data |-> data]
             /\ ret' = r.result
             /\ tiles' = r.tiles
    /\ UNCHANGED <<files, props>>
    /\ UNCHANGED streamVars

\* build_chunk_mesh_from_tiles on the cached tiles of a chunk
NormBuildMesh ==
    /\ call = NoCall
    /\ \E key \in DOMAIN tiles, data \in NormData, g \in {2, MaxGrid} :
          /\ call' = [fn |-> "build_chunk_mesh_from_tiles", key |-> key,
                      grid |-> <<g, g>>, data |-> data]
          /\ ret' = build_chunk_mesh_from_tiles(
                      key[1], key[2], <<g, g>>, data, tiles[key],
                      fetch_tile(tiles, files, <<key[1] + 1, key[2]>>),
                      fetch_tile(tiles, files, <<key[1], key[2] + 1>>),
                      fetch_tile(tiles, files, <<key[1] + 1, key[2] + 1>>))
    /\ UNCHANGED <<files, tiles, props>>
    /\ UNCHANGED streamVars

NextNorm == NormSampleHeight \/ NormBuildMesh

SpecNorm == InitNorm /\ [][NextNorm]_vars

(* ------------------------------ properties ----------------------------- *)
KeyOf(info) == <<info.cx, info.cz>>
ScheduleStep == phase = "schedule" /\ phase' = "receive"
ReceiveStep == phase = "receive" /\ phase' = "schedule"
FileValid(f) == f.exists /\ Len(f.bytes) >= ExpectedBytes

\* C1: admission uniqueness -- the in-flight list never holds two entries
\* for the same chunk key, whatever their tiers.
C1_AdmissionUniqueness ==
    \A a, b \in 1..Len(tasks) :
        a # b => KeyOf(tasks[a]) # KeyOf(tasks[b])

\* C2: a superseded result is never written back -- every record that a
\* receive pass registers in ChunkManager.loaded is for a key of the desired
\* set of that frame, at the desired tier.
C2_NoSupersededWriteBack ==
    [][ReceiveStep =>
          \A k \in DOMAIN loaded' :
              (k \notin DOMAIN loaded \/ loaded'[k] # loaded[k])
                  => (k \in DOMAIN desired /\ desired[k] = loaded'[k].lod)]_vars

\* C3: at most one resident record per key -- every alive chunk entity is
\* the entity recorded for its key in ChunkManager.loaded.
C3_NoOrphanEntity ==
    \A e \in DOMAIN entities :
        /\ KeyOf(entities[e]) \in DOMAIN loaded
        /\ loaded[KeyOf(entities[e])].ent = e

\* C4: tier-swap atomicity -- when a schedule pass finds a resident chunk
\* whose desired tier differs from its resident tier, the pass sends exactly
\* one TerrainChunkUnloaded for that key.
NewUnloaded(k) ==
    {n \in (Len(unloadedEvents) + 1)..Len(unloadedEvents') :
        unloadedEvents'[n] = [x |-> k[1], z |-> k[2]]}

C4_TierSwapUnloadsOnce ==
    [][ScheduleStep =>
          \A k \in DOMAIN loaded :
              (k \in DOMAIN desired' /\ desired'[k] # loaded[k].lod)
                  => Cardinality(NewUnloaded(k)) = 1]_vars

\* C5: every removal of a resident chunk by reconciliation sends a
\* TerrainChunkUnloaded carrying the removed key.
C5_RemovalEmitsUnloaded ==
    [][ScheduleStep =>
          \A k \in DOMAIN loaded \ DOMAIN loaded' : NewUnloaded(k) # {}]_vars

\* C6: integration budget -- a receive pass removes exactly
\* min(IntegrationBudget, queue length) entries from the head of the
\* completion queue, sends that many TerrainChunkLoaded events and leaves
\* the other entries queued.
C6_IntegrationBudget ==
    [][ReceiveStep =>
          LET n == Min(integBudget, Len(pending))
          IN  /\ pending' = SubSeq(pending, n + 1, Len(pending))
              /\ Len(loadedEvents') = n
              /\ Len(loadedEvents') <= integBudget]_vars

\* a receive pass has spent its whole budget and left entries queued
C6_Witness ==
    /\ phase = "schedule"
    /\ Len(loadedEvents) = integBudget
    /\ Len(pending) > 0

\* C7: one TerrainChunkLoaded per integration -- the events of a receive
\* pass are, in order, one per entry taken from the completion queue, with
\* the entry's key and the footprint min = origin + key * chunkSize,
\* max = min + chunkSize; each entry gets one new entity and its key a record
\* in ChunkManager.loaded; no other step sends a TerrainChunkLoaded.
Footprint(info) ==
    [coord  |-> [x |-> info.cx, z |-> info.cz],
     min_xz |-> <<OriginX + info.cx * ChunkSizeX,
                  OriginZ + info.cz * ChunkSizeZ>>,
     max_xz |-> <<OriginX + (info.cx + 1) * ChunkSizeX,
                  OriginZ + (info.cz + 1) * ChunkSizeZ>>]

C7_LoadedOncePerIntegration ==
    [][/\ ReceiveStep =>
            LET n == Len(pending) - Len(pending')
            IN  /\ loadedEvents' = [i \in 1..n |-> Footprint(pending[i])]
                /\ Cardinality(DOMAIN entities' \ DOMAIN entities) = n
                /\ \A i \in 1..n :
                      /\ KeyOf(pending[i]) \in DOMAIN loaded'
                      /\ loaded'[KeyOf(pending[i])].ent \notin DOMAIN entities
                      /\ \E e \in DOMAIN entities' \ DOMAIN entities :
                            KeyOf(entities'[e]) = KeyOf(pending[i])
                      /\ \E m \in i..n :
                            /\ KeyOf(pending[m]) = KeyOf(pending[i])
                            /\ loaded'[KeyOf(pending[i])].lod = pending[m].lod
       /\ ~ReceiveStep =>
            (loadedEvents' = loadedEvents \/ loadedEvents' = <<>>)]_vars

\* a receive pass has integrated an entry and sent its event
C7_Witness ==
    /\ phase = "schedule"
    /\ Len(loadedEvents) >= 1
    /\ <<loadedEvents[1].coord.x, loadedEvents[1].coord.z>> \in DOMAIN loaded

\* C8: order of the steps -- reconciliation runs before admission, so every
\* job a schedule pass submits is still in flight or in the completion queue
\* when the pass ends, also a job of the new tier for a key the same pass
\* despawned for a tier mismatch.
C8_AdmittedJobSurvivesPass ==
    phase = "receive" =>
        \A n \in 1..Len(started) :
            started[n] \in Range(tasks) \cup Range(pending)

\* a pass despawned a key and submitted the job of its new tier
C8_Witness ==
    /\ phase = "receive"
    /\ \E n \in 1..Len(started) :
          /\ KeyOf(started[n]) \in removed
          /\ desired[KeyOf(started[n])] = started[n].lod

\* C9: a missing own tile is a skip -- for a desired key that is neither
\* resident at its tier nor queued at its tier, a schedule pass submits no
\* job when the own tile is unavailable, and submits the job when the tile is
\* available unless the creation budget is used up.
C9_MissingTileIsSkip ==
    [][ScheduleStep =>
          \A k \in DOMAIN desired' :
              LET lod == desired'[k]
                  resident == k \in DOMAIN loaded /\ loaded[k].lod = lod
                  queued == /\ k \notin removed'
                            /\ \E q \in Range(tasks) \cup Range(pending) :
                                  KeyOf(q) = k /\ q.lod = lod
                  avail == k \in DOMAIN tiles \/ FileValid(FileAt(files, k))
                  job == [cx |-> k[1], cz |-> k[2], lod |-> lod]
                  exhausted == buildBudget # None
                                  /\ Len(started') >= buildBudget[1]
              IN  (~resident /\ ~queued) =>
                     /\ ~avail => \A n \in 1..Len(started') :
                                      KeyOf(started'[n]) # k
                     /\ (avail /\ ~exhausted) => job \in Range(started')]_vars

\* a pass has skipped a desired key whose tile is missing
C9_Witness ==
    /\ phase = "receive"
    /\ buildBudget = None
    /\ started = <<>>
    /\ \E k \in DOMAIN desired :
          /\ k \notin DOMAIN loaded
          /\ k \notin DOMAIN tiles
          /\ ~FileValid(FileAt(files, k))
          /\ \A q \in Range(tasks) \cup Range(pending) : KeyOf(q) # k

\* C10: failures are not cached -- a fetch_tile of an uncached coordinate
\* whose file is missing or short returns None and leaves the cache
\* unchanged; a fetch of an uncached coordinate whose file is valid returns
\* the decoded tile and caches it.
C10_FailuresNotCached ==
    [][(lastFetch' # lastFetch \/ tiles' # tiles) =>
          LET c == lastFetch'.coord
          IN  c \notin DOMAIN tiles =>
                 IF FileValid(FileAt(files, c))
                   THEN /\ c \in DOMAIN tiles'
                        /\ lastFetch'.result = Some(tiles'[c])
                        /\ tiles'[c] = load_raw16(files[c])[1]
                   ELSE /\ lastFetch'.result = None
                        /\ tiles' = tiles]_vars

\* a fetch has failed on a short file and nothing is cached for it
C10_Witness ==
    /\ lastFetch.coord \in TileCoords
    /\ lastFetch.result = None
    /\ files[lastFetch.coord] = ShortFile
    /\ lastFetch.coord \notin DOMAIN tiles

\* C11: the tile store never evicts -- a cached coordinate stays cached with
\* the same samples whatever happens to its file, and a fetch of a cached
\* coordinate returns the cached samples, not what the disk holds now.
C11_NeverEvicts ==
    [][\A c \in DOMAIN tiles :
          /\ c \in DOMAIN tiles'
          /\ tiles'[c] = tiles[c]
          /\ (lastFetch' # lastFetch /\ lastFetch'.coord = c)
                => lastFetch'.result = Some(tiles[c])]_vars

\* the last fetch returned the cached samples of a coordinate whose file
\* has been replaced by another valid file, or removed
C11_Witness ==
    \E c \in DOMAIN tiles :
        /\ lastFetch = [coord |-> c, result |-> Some(tiles[c])]
        /\ \E d \in DOMAIN tiles \ {c} :
              /\ FileValid(files[d]) /\ load_raw16(files[d]) # Some(tiles[d])
        /\ ~files[c].exists

\* C12: seam continuity -- when two horizontally adjacent chunks are built
\* at the same grid resolution with their own tiles and every seam
\* neighbour present, each vertex of
\* the left mesh's rightmost column has the height of the right mesh's
\* leftmost-column vertex of the same row.
HeightAt(mesh, nx, i, j) == mesh.vertices[j * nx + i + 1].position[2]

C12_SeamContinuity ==
    \A key \in DOMAIN ret :
        LET east == <<key[1] + 1, key[2]>>
            nx == call.grid_res[1]
            nz == call.grid_res[2]
        IN  (/\ east \in DOMAIN ret /\ ret[key] # None /\ ret[east] # None
             /\ DOMAIN tiles = MeshCoords) =>
               \A j \in 0..(nz - 1) :
                   HeightAt(ret[key][1], nx, nx - 1, j)
                       = HeightAt(ret[east][1], nx, 0, j)

\* C13: fallback -- a launch iteration for a chunk whose own tile is
\* unavailable still ends with a mesh: flat, 4 vertices, 6 indices, upward
\* normals, corners on the chunk's world footprint.
C13_FallbackQuad ==
    \A key \in DOMAIN ret :
        fetch_tile(tiles, files, key) = None =>
            /\ ret[key] # None
            /\ LET m == ret[key][1]
                    x0 == OriginX + key[1] * ChunkSizeX
                    z0 == OriginZ + key[2] * ChunkSizeZ
               IN  /\ Len(m.vertices) = 4
                   /\ Len(m.indices) = 6
                   /\ \A k \in 1..4 :
                         /\ m.vertices[k].normal = <<QInt(0), QInt(1), QInt(0)>>
                         /\ m.vertices[k].position[2] = QInt(0)
                   /\ {<<m.vertices[k].position[1], m.vertices[k].position[3]>> :
                          k \in 1..4}
                         = {<<QInt(x), QInt(z)>> :
                              x \in {x0, x0 + ChunkSizeX},
                              z \in {z0, z0 + ChunkSizeZ}}

\* C14: desired-set computation -- every schedule pass replaces the desired
\* set by the keys of the lattice within CHUNK_RADIUS chunks of the viewer's
\* chunk on both axes, each mapped to the tier pick gives for the distance
\* from the viewpoint to the centre of the chunk.
ViewerChunk(pos) ==
    <<FloorDiv(pos.x - OriginX, ChunkSizeX), FloorDiv(pos.z - OriginZ, ChunkSizeZ)>>

Window(pos) ==
    {k \in LatticeKeys :
        /\ Abs(k[1] - ViewerChunk(pos)[1]) <= CHUNK_RADIUS
        /\ Abs(k[2] - ViewerChunk(pos)[2]) <= CHUNK_RADIUS}

CentreDist2(pos, k) ==
    LET dx == pos.x - (OriginX + k[1] * ChunkSizeX + ChunkSizeX \div 2)
        dy == pos.y - 0
        dz == pos.z - (OriginZ + k[2] * ChunkSizeZ + ChunkSizeZ \div 2)
    IN  dx * dx + dy * dy + dz * dz

C14_DesiredSet ==
    [][ScheduleStep =>
          desired' = [k \in Window(cam) |-> pick(CentreDist2(cam, k))]]_vars

\* C15: LodLevel::pick is a step function of the distance alone -- below
\* 600 Near, from 600 to below 1200 Mid, from 1200 Far, whatever the call
\* before it answered; a call at a distance not smaller than that of the
\* call before it never answers a finer tier; and the grid resolution of a
\* coarser tier is strictly smaller (129, 65, 33).
Rank(lod) == IF lod = "Near" THEN 1 ELSE IF lod = "Mid" THEN 2 ELSE 3

C15_PickStepFunction ==
    [][(call' # call \/ ret' # ret) =>
          LET d == call'.distance
              r == ret'[1]
          IN  /\ r.lod = (IF d < 600 THEN "Near"
                          ELSE IF d < 1200 THEN "Mid" ELSE "Far")
              /\ r.grid = (IF r.lod = "Near" THEN <<129, 129>>
                           ELSE IF r.lod = "Mid" THEN <<65, 65>>
                           ELSE <<33, 33>>)
              /\ ret # None =>
                    /\ call.distance <= d => Rank(ret[1].lod) <= Rank(r.lod)
                    /\ Rank(ret[1].lod) < Rank(r.lod) =>
                          /\ r.grid[1] < ret[1].grid[1]
                          /\ r.grid[2] < ret[1].grid[2]]_vars

\* pick has answered Mid, with its grid, at exactly 600
C15_Witness ==
    /\ call = [fn |-> "pick", distance |-> 600]
    /\ ret = Some([lod |-> "Mid", grid |-> <<65, 65>>])

\* C16: sample_height returns None and leaves the tile cache alone when the
\* point, after subtracting the origin, is outside [0, size) on an axis;
\* returns None when the tile of the point's chunk is unavailable; and
\* returns Some height in every other case.
SampleStep == call' # call \/ ret' # ret \/ tiles' # tiles

\* the chunk of the query point (flip_v mirrors the z axis first)
PointChunk(q) ==
    LET data == TerrainData(q.flip_v)
        lx == q.x - OriginX
        lz == IF q.flip_v THEN data.size[2] - (q.z - OriginZ) ELSE q.z - OriginZ
    IN  [cx |-> FloorDiv(lx, ChunkSizeX), cz |-> FloorDiv(lz, ChunkSizeZ),
         local_x |-> lx % ChunkSizeX, local_z |-> lz % ChunkSizeZ]

C16_SampleHeightOption ==
    [][SampleStep =>
          LET q == call'
              data == TerrainData(q.flip_v)
              outside == \/ q.x - OriginX < 0 \/ q.x - OriginX >= data.size[1]
                         \/ q.z - OriginZ < 0 \/ q.z - OriginZ >= data.size[2]
              c == <<PointChunk(q).cx, PointChunk(q).cz>>
              avail == c \in DOMAIN tiles \/ FileValid(FileAt(files, c))
          IN  IF outside THEN ret' = None /\ tiles' = tiles
              ELSE IF ~avail THEN ret' = None
              ELSE ret' # None]_vars

\* a query just past the far edge answered None and left uncached the
\* valid tile that the chunk arithmetic would have led to
C16_Witness ==
    /\ call.fn = "sample_height"
    /\ call.x = 0 /\ call.z = 512 /\ call.flip_v = FALSE
    /\ ret = None
    /\ FileValid(files[<<0, 1>>])
    /\ <<0, 1>> \notin DOMAIN tiles

\* C17: the height query is idempotent -- with the files unchanged, the
\* same query asked again right after a call returns what the call
\* returned, also when the call was the one that cached the tile.
C17_SampleHeightIdempotent ==
    [][SampleStep =>
          LET again == sample_height(call'.x, call'.z,
                                     TerrainData(call'.flip_v), tiles', files')
          IN  /\ again.result = ret'
              /\ again.tiles = tiles']_vars

\* a query has returned a height from the one tile the cache holds
C17_Witness ==
    /\ call # NoCall
    /\ ret # None
    /\ Cardinality(DOMAIN tiles) = 1

\* C18: bilinear exactness -- a query at a point that maps to an integer
\* pixel of its tile returns the height of that pixel's sample alone; for
\* a sample of 65535 with the raw range (0, 65535) that is height_scale.
C18_BilinearExact ==
    [][(SampleStep /\ ret' # None) =>
          LET pc == PointChunk(call')
              tile == tiles'[<<pc.cx, pc.cz>>]
              px == Q(pc.local_x * (tile.res[1] - 1), ChunkSizeX)
              pz == Q(pc.local_z * (tile.res[2] - 1), ChunkSizeZ)
              s == get_clamped(tile, px.n, pz.n)
          IN  (px.d = 1 /\ pz.d = 1) =>
                 /\ ret' = Some(QMul(Q(s - RAW_MIN, RAW_MAX - RAW_MIN),
                                     QInt(HEIGHT_SCALE_METERS)))
                 /\ s = 65535 => ret' = Some(QInt(HEIGHT_SCALE_METERS))]_vars

\* the query at pixel (0,0) of a tile whose first sample is 65535 returned
\* height_scale
C18_Witness ==
    /\ call.fn = "sample_height"
    /\ call.x = 0 /\ call.z = 0 /\ call.flip_v = FALSE
    /\ files[<<0, 0>>] = FileTop
    /\ ret = Some(QInt(HEIGHT_SCALE_METERS))

\* C19: PropId is unique -- no two spawn requests pushed to the SpawnQueue
\* carry the same (chunk, local index, archetype).
C19_PropIdUnique ==
    \A a, b \in 1..Len(props.pushed) :
        a # b => props.pushed[a] # props.pushed[b]

\* C20: the cap is absolute -- a placement returns at most cap probes, and
\* they carry the local indices 0, 1, 2, ... in order.
C20_CapIsAbsolute ==
    ret # None =>
        /\ Len(ret[1]) <= call.cap
        /\ \A k \in 1..Len(ret[1]) : ret[1][k].local_index = k - 1

\* C21: post-condition of reconciliation -- when a schedule pass ends, every
\* key in ChunkManager.loaded is in the desired set at its resident tier, the
\* keys that left ChunkManager.loaded are the removed ones, and the in-flight
\* list and the completion queue hold no entry for a removed key other than
\* the jobs step 3 of the same pass submitted afterwards.
C21_PostReconcile ==
    phase = "receive" =>
        /\ \A k \in DOMAIN loaded :
              k \in DOMAIN desired /\ desired[k] = loaded[k].lod
        /\ removed \cap DOMAIN loaded = {}
        /\ \A k \in removed :
              \A q \in Range(tasks) \cup Range(pending) :
                  KeyOf(q) = k => q \in Range(started)

\* a pass has despawned a key whose tier changed and nothing is queued for
\* the key but the job of the new tier
C21_Witness ==
    /\ phase = "receive"
    /\ \E k \in removed :
          /\ k \in DOMAIN desired
          /\ \E q \in Range(tasks) \cup Range(pending) : KeyOf(q) = k


\* C22: a resident chunk whose desired tier equals its resident tier is left
\* alone by a full pass -- the schedule pass keeps its record and its entity,
\* the receive pass keeps its record and sends no TerrainChunkLoaded for its
\* key.
C22_MatchingResidentKept ==
    [][/\ ScheduleStep =>
            \A k \in DOMAIN loaded :
                (k \in DOMAIN desired' /\ desired'[k] = loaded[k].lod)
                    => /\ k \in DOMAIN loaded'
                       /\ loaded'[k] = loaded[k]
                       /\ loaded[k].ent \in DOMAIN entities'
       /\ ReceiveStep =>
            \A k \in DOMAIN loaded :
                (k \in DOMAIN desired /\ desired[k] = loaded[k].lod)
                    => /\ loaded'[k] = loaded[k]
                       /\ \A n \in 1..Len(loadedEvents') :
                             loadedEvents'[n].coord # [x |-> k[1], z |-> k[2]]]_vars


\* C23: admission conditions -- a pass submits at most MeshBuildBudget jobs
\* (any number when the resource is absent); every job submitted is for a
\* key of the desired set at its desired tier, the key is not resident at
\* that tier, the lists left by step 2 hold no entry for that key and tier,
\* and no job is submitted twice.
C23_AdmissionConditions ==
    [][ScheduleStep =>
          /\ buildBudget # None => Len(started') <= buildBudget[1]
          /\ \A n \in 1..Len(started') :
                LET job == started'[n]
                    k == KeyOf(job)
                IN  /\ k \in DOMAIN desired'
                    /\ desired'[k] = job.lod
                    /\ ~(k \in DOMAIN loaded' /\ loaded'[k].lod = job.lod)
                    /\ k \in removed'
                          \/ job \notin Range(tasks) \cup Range(pending)
                    /\ \A m \in 1..Len(started') :
                          m # n => started'[m] # job]_vars

\* a budget of one job is spent and a second desired key, with its tile on
\* disk, neither resident nor queued, has to wait
C23_Witness ==
    /\ phase = "receive"
    /\ buildBudget = Some(1)
    /\ Len(started) = 1
    /\ \E k \in DOMAIN desired :
          /\ k # KeyOf(started[1])
          /\ k \notin DOMAIN loaded
          /\ FileValid(FileAt(files, k))
          /\ \A q \in Range(tasks) \cup Range(pending) : KeyOf(q) # k


\* C24: polling -- step 4 checks every in-flight job once: the jobs that
\* check_ready answers Some for leave the in-flight list and are appended to
\* the completion queue, each once and with its own key and tier, behind the
\* entries already queued; the other jobs stay in the in-flight list, each
\* once; no job is lost or duplicated.
Occurrences(q, x) == Cardinality({n \in 1..Len(q) : q[n] = x})

C24_PollMovesFinished ==
    [][ScheduleStep =>
          LET keep(q) == KeyOf(q) \notin removed'
              inflight == SelectSeq(tasks, keep) \o started'
              queued == SelectSeq(pending, keep)
              moved == SubSeq(pending', Len(queued) + 1, Len(pending'))
          IN  /\ Len(pending') >= Len(queued)
              /\ SubSeq(pending', 1, Len(queued)) = queued
              /\ Len(moved) + Len(tasks') = Len(inflight)
              /\ \A q \in Range(inflight) :
                    IF q \in call'.ready
                      THEN Occurrences(moved, q) = 1 /\ q \notin Range(tasks')
                      ELSE Occurrences(tasks', q) = 1 /\ q \notin Range(moved)]_vars

\* of two jobs submitted in a pass the first had finished when polled and the
\* second had not: swap_remove put the second in the place of the first
C24_Witness ==
    /\ phase = "receive"
    /\ Len(started) = 2
    /\ call.fn = "check_ready"
    /\ started[1] \in call.ready
    /\ started[2] \notin call.ready
    /\ started[2] \in Range(tasks)
    /\ started[1] \in Range(pending)


\* C25: lifecycle of a key -- a record enters ChunkManager.loaded, or
\* changes, only in a receive pass and only from a completion-queue entry for
\* that key which the pass integrates, with the tier of that entry; an entry
\* enters the completion queue only in a schedule pass, out of the in-flight
\* list, for a job that was in flight or was submitted in that pass; and an
\* entry enters the in-flight list only as a job submitted in that pass.
C25_Lifecycle ==
    [][/\ \A k \in DOMAIN loaded' :
             (k \notin DOMAIN loaded \/ loaded'[k] # loaded[k])
                 => /\ ReceiveStep
                    /\ \E n \in 1..(Len(pending) - Len(pending')) :
                          /\ KeyOf(pending[n]) = k
                          /\ pending[n].lod = loaded'[k].lod
       /\ \A q \in Range(pending') \ Range(pending) :
             /\ ScheduleStep
             /\ q \in Range(tasks) \cup Range(started')
             /\ q \notin Range(tasks')
       /\ \A q \in Range(tasks') \ Range(tasks) :
             ScheduleStep /\ q \in Range(started')]_vars

\* a key has gone from absent through building to integrated at its desired
\* tier: its record is new in this frame and nothing is queued any more
C25_Witness ==
    /\ phase = "schedule"
    /\ tasks = <<>>
    /\ pending = <<>>
    /\ Len(loadedEvents) = 1
    /\ \E k \in DOMAIN loaded :
          /\ loadedEvents[1].coord = [x |-> k[1], z |-> k[2]]
          /\ k \in DOMAIN desired
          /\ desired[k] = loaded[k].lod


\* C26: convergence -- if from some frame on the camera stays where it is
\* and the own tile of every desired key is cached or on disk, the frames
\* keep running and the creation budget is not zero, then from some frame on
\* every desired key is resident at its desired tier, nothing else is
\* resident, the in-flight list and the completion queue are empty, and the
\* passes despawn nothing, submit nothing and send no event.
TilesAvailable ==
    \A k \in DOMAIN ComputeDesired(cam) :
        k \in DOMAIN tiles \/ FileValid(FileAt(files, k))

Converged ==
    /\ DOMAIN loaded = DOMAIN ComputeDesired(cam)
    /\ \A k \in DOMAIN loaded : loaded[k].lod = ComputeDesired(cam)[k]
    /\ tasks = <<>>
    /\ pending = <<>>
    /\ started = <<>>
    /\ removed = {}
    /\ loadedEvents = <<>>

C26_Convergence ==
    \A p \in CamPositions :
        (/\ <>[](cam = p /\ TilesAvailable)
         /\ []<>(phase = "schedule")
         /\ [](buildBudget # Some(0)))
            => <>[]Converged

\* a chunk is resident at its desired tier and the streaming is at rest
C26_Witness ==
    /\ Converged
    /\ loaded # EmptyMap
    /\ phase = "schedule"


\* C27: the in-flight list and the completion queue together hold at most
\* one entry per key and tier, so together they are never longer than the
\* number of (key, tier) pairs.
C27_OneEntryPerKeyTier ==
    LET all == tasks \o pending
    IN  /\ \A a, b \in 1..Len(all) : a # b => all[a] # all[b]
        /\ Len(all) <= Cardinality(LatticeKeys) * Cardinality(LodLevel)

\* a pass has ended with one tier of a key in flight and another tier of the
\* same key in the completion queue
C27_Witness ==
    /\ phase = "receive"
    /\ \E a \in 1..Len(tasks), b \in 1..Len(pending) :
          KeyOf(tasks[a]) = KeyOf(pending[b]) /\ tasks[a].lod # pending[b].lod

\* C28: the mesh a build job produces is the one built from the key, the grid
\* of the tier, the configuration copy and the four tiles as the tile cache and
\* the files gave them when the job was admitted, whatever the tile cache, the
\* files and the viewpoint have become by the time it ends; and the step in
\* which the job ends changes no state of the main pass.
C28_PrivateSnapshot ==
    [][ret' # ret =>
          /\ UNCHANGED <<cam, files, tiles, desired, loaded, tasks, pending,
                         entities, loadedEvents, unloadedEvents, started,
                         removed, call>>
          /\ ret' = Some(ChunkMeshJob(
                       call.cx, call.cz, JobGrid(call.lod),
                       TerrainData(TRUE),
                       fetch_tile(call.seen.tiles, call.seen.files,
                                  <<call.cx, call.cz>>)[1],
                       fetch_tile(call.seen.tiles, call.seen.files,
                                  <<call.cx + 1, call.cz>>),
                       fetch_tile(call.seen.tiles, call.seen.files,
                                  <<call.cx, call.cz + 1>>),
                       fetch_tile(call.seen.tiles, call.seen.files,
                                  <<call.cx + 1, call.cz + 1>>)))]_vars

\* a job ended after the right neighbour's tile, absent at admission, had
\* come into the cache, and after the viewpoint had moved
C28_Witness ==
    /\ ret # None
    /\ call # NoCall
    /\ call.right = None
    /\ fetch_tile(tiles, files, <<call.cx + 1, call.cz>>) # None
    /\ <<call.cx + 1, call.cz>> \in DOMAIN tiles
    /\ cam # StartCam

\* C29: in a scheduling pass every job counted as started was submitted, for a
\* key whose own tile is available; and a desired key that is left without a
\* job although its own tile is available, it is not resident at its tier and
\* nothing is queued for it, is left so only because as many jobs as the
\* budget allows were submitted, never because of a key whose tile is missing.
C29_MissingTileCostsNothing ==
    [][ScheduleStep =>
          /\ \A n \in 1..Len(started') :
                /\ fetch_tile(tiles, files, KeyOf(started'[n])) # None
                /\ started'[n] \in Range(tasks') \cup Range(pending')
          /\ \A k \in DOMAIN desired' :
                (/\ fetch_tile(tiles, files, k) # None
                 /\ ~(k \in DOMAIN loaded' /\ loaded'[k].lod = desired'[k])
                 /\ [cx |-> k[1], cz |-> k[2], lod |-> desired'[k]]
                       \notin Range(tasks') \cup Range(pending'))
                => /\ buildBudget # None
                   /\ Len(started') = buildBudget[1]]_vars

\* under a budget of one job, a pass has submitted the job of one key while
\* another desired key, neither resident nor queued, has no tile
C29_Witness ==
    /\ phase = "receive"
    /\ buildBudget = Some(1)
    /\ Len(started) = 1
    /\ \E k \in DOMAIN desired :
          /\ k # KeyOf(started[1])
          /\ k \notin DOMAIN loaded
          /\ fetch_tile(tiles, files, k) = None
          /\ \A j \in Range(tasks) \cup Range(pending) : KeyOf(j) # k

C31_BatchFlagsTellTruth ==
    \A k \in DOMAIN props.batches :
       LET b == props.batches[k]
       IN  b.mesh # None =>
              /\ b.instances # b.mesh[1] => b.dirty
              /\ b.last_built_count = Len(b.mesh[1])

\* C32: rebuild_dirty_batches launches at most max_merges_per_frame merge
\* tasks in a frame and none for a batch that is building, so no batch has two
\* merge tasks; and a batch whose merge task has finished and whose result, if
\* any, has been integrated is no longer building.
C32_MergeScheduling ==
    /\ Len(props.launched) <= props.max_merges_per_frame
    /\ \A m, n \in 1..Len(props.deferred) :
          m # n => props.deferred[m].target # props.deferred[n].target
    /\ \A k \in DOMAIN props.batches :
          (/\ \A n \in 1..Len(props.deferred) : props.deferred[n].target # k
           /\ \A n \in 1..Len(props.finished) : props.finished[n].target # k)
          => ~props.batches[k].building

\* C33: whenever sample_height asks the tile cache for a tile, the tile
\* coordinate lies in the lattice of the world: 0 <= cx < size.x / chunk_size.x
\* and 0 <= cz < size.y / chunk_size.y, with flip_v set or not.
C33_FetchInsideLattice ==
    (call.fn = "sample_height" /\ call.fetch # None) =>
       LET data == TerrainData(call.flip_v)
           c == call.fetch[1]
       IN  /\ 0 <= c[1]
           /\ c[1] * data.chunk_size[1] < data.size[1]
           /\ 0 <= c[2]
           /\ c[2] * data.chunk_size[2] < data.size[2]

\* C34: whichever of the right, up and up-right neighbour tiles are there, a
\* built mesh has the full grid of nx * nz vertices; a vertex of the right
\* column, of the top row or of the top-right corner has the height of the
\* nearest sample of the first column, the first row or the first sample of
\* the neighbour on that side when that neighbour is there, and the height
\* interpolated in the chunk's own tile when it is not; and every sample read
\* is an element of the tile's data.
ReadInside(t, x, y) ==
    LET idx == Clamp(y, 0, t.res[2] - 1) * t.res[1]
                 + Clamp(x, 0, t.res[1] - 1) + 1
    IN  idx \in 1..Len(t.data) /\ get_clamped(t, x, y) = t.data[idx]

Nearest(k, n, t_max) == (2 * k * t_max + (n - 1)) \div (2 * (n - 1))

OwnRaw(cur, nx, nz, i, j) ==
    Bilinear(cur, Q(i * Max(cur.res[1] - 1, 0), nx - 1),
                  Q(j * Max(cur.res[2] - 1, 0), nz - 1))

Normalised(raw, data) ==
    LET rmin == data.raw_minmax[1]
        rmax == data.raw_minmax[2]
    IN  IF rmax > rmin
          THEN QMul(QClamp(QDiv(QSub(raw, QInt(rmin)), QInt(rmax - rmin)),
                           QInt(0), QInt(1)),
                    QInt(data.height_scale))
          ELSE QInt(0)

C34_MissingNeighbours ==
    \A key \in DOMAIN ret :
       ret[key] # None =>
          LET m == ret[key][1]
              nx == call.grid_res[1]
              nz == call.grid_res[2]
              data == TerrainData(TRUE)
              cur == tiles[key]
              right == <<key[1] + 1, key[2]>>
              up == <<key[1], key[2] + 1>>
              up_right == <<key[1] + 1, key[2] + 1>>
              tx_max == Max(cur.res[1] - 1, 0)
              tz_max == Max(cur.res[2] - 1, 0)
          IN  /\ Len(m.vertices) = nx * nz
              /\ \A j \in 0..(nz - 2) :
                    /\ right \in DOMAIN tiles =>
                          ReadInside(tiles[right], 0, Nearest(j, nz, tz_max))
                    /\ HeightAt(m, nx, nx - 1, j) =
                         Normalised(
                           IF right \in DOMAIN tiles
                             THEN QInt(get_clamped(tiles[right], 0,
                                                   Nearest(j, nz, tz_max)))
                             ELSE OwnRaw(cur, nx, nz, nx - 1, j),
                           data)
              /\ \A i \in 0..(nx - 2) :
                    /\ up \in DOMAIN tiles =>
                          ReadInside(tiles[up], Nearest(i, nx, tx_max), 0)
                    /\ HeightAt(m, nx, i, nz - 1) =
                         Normalised(
                           IF up \in DOMAIN tiles
                             THEN QInt(get_clamped(tiles[up],
                                                   Nearest(i, nx, tx_max), 0))
                             ELSE OwnRaw(cur, nx, nz, i, nz - 1),
                           data)
              /\ HeightAt(m, nx, nx - 1, nz - 1) =
                   Normalised(
                     IF up_right \in DOMAIN tiles
                       THEN QInt(get_clamped(tiles[up_right], 0, 0))
                       ELSE OwnRaw(cur, nx, nz, nx - 1, nz - 1),
                     data)
              /\ \A x \in -1..(cur.res[1] + 1), y \in -1..(cur.res[2] + 1) :
                    ReadInside(cur, x, y)

\* meshes were built for a chunk whose right neighbour is there while its up
\* and up-right neighbours are missing, and for a chunk with no neighbour
C34_Witness ==
    /\ \E key \in DOMAIN ret :
          /\ ret[key] # None
          /\ <<key[1] + 1, key[2]>> \in DOMAIN tiles
          /\ <<key[1], key[2] + 1>> \notin DOMAIN tiles
          /\ <<key[1] + 1, key[2] + 1>> \notin DOMAIN tiles
    /\ \E key \in DOMAIN ret :
          /\ ret[key] # None
          /\ <<key[1] + 1, key[2]>> \notin DOMAIN tiles
          /\ <<key[1], key[2] + 1>> \notin DOMAIN tiles
          /\ <<key[1] + 1, key[2] + 1>> \notin DOMAIN tiles

\* C35: a mesh built on a grid of nx by nz vertices has nx * nz vertices in
\* row-major order (vertex j * nx + i lies at the fractions i / (nx - 1) and
\* j / (nz - 1) of the chunk), and 2 * (nx - 1) * (nz - 1) triangles, two for
\* each grid cell in row-major order of the cells, wound (i0, i2, i1) and
\* (i1, i2, i3), with every index below nx * nz.
C35_MeshTopology ==
    \A key \in DOMAIN ret :
       ret[key] # None =>
          LET m == ret[key][1]
              nx == call.grid_res[1]
              nz == call.grid_res[2]
              x0 == OriginX + key[1] * ChunkSizeX
              z0 == OriginZ + key[2] * ChunkSizeZ
          IN  /\ Len(m.vertices) = nx * nz
              /\ \A i \in 0..(nx - 1), j \in 0..(nz - 1) :
                    LET vtx == m.vertices[j * nx + i + 1]
                    IN  /\ vtx.uv = <<Q(i, nx - 1), Q(j, nz - 1)>>
                        /\ vtx.position[1] = Q(x0 * (nx - 1) + i * ChunkSizeX,
                                               nx - 1)
                        /\ vtx.position[3] = Q(z0 * (nz - 1) + j * ChunkSizeZ,
                                               nz - 1)
              /\ Len(m.indices) = 3 * (2 * (nx - 1) * (nz - 1))
              /\ \A i \in 0..(nx - 2), j \in 0..(nz - 2) :
                    LET c == j * (nx - 1) + i
                        i0 == j * nx + i
                        i1 == i0 + 1
                        i2 == i0 + nx
                        i3 == i2 + 1
                    IN  SubSeq(m.indices, 6 * c + 1, 6 * c + 6)
                           = <<i0, i2, i1, i1, i2, i3>>
              /\ \A k \in 1..Len(m.indices) :
                    m.indices[k] \in 0..(nx * nz - 1)

\* a mesh was built on a grid with more columns than rows
C35_Witness ==
    /\ call.grid_res[1] > call.grid_res[2]
    /\ \E key \in DOMAIN ret :
          /\ ret[key] # None
          /\ Len(ret[key][1].vertices) = call.grid_res[1] * call.grid_res[2]
          /\ Len(ret[key][1].indices) > 6

\* C36: every height sample_height returns and every vertex height of a built
\* mesh lies between 0 and height_scale, whatever the raw range; and it is 0
\* when the raw range is empty or reversed (rawMax <= rawMin).
InRange(h, data) ==
    /\ ~QLt(h, QInt(0))
    /\ ~QLt(QInt(data.height_scale), h)
    /\ data.raw_minmax[2] <= data.raw_minmax[1] => h = QInt(0)

C36_HeightNormalised ==
    /\ (call.fn = "sample_height" /\ ret # None) => InRange(ret[1], call.data)
    /\ call.fn = "build_chunk_mesh_from_tiles" =>
          \A k \in 1..Len(ret[1].vertices) :
             InRange(ret[1].vertices[k].position[2], call.data)

\* the sampler returned exactly height_scale for a raw value above a raw
\* range narrower than the samples
C36_Witness ==
    /\ call.fn = "sample_height"
    /\ call.data.raw_minmax = <<1000, 30000>>
    /\ call.data.height_scale > 0
    /\ ret = Some(QInt(call.data.height_scale))

\* C37: a fetch that has to decode a tile file returns None when the file is
\* shorter than width * height * 2 bytes; otherwise it returns width * height
\* samples, sample k (from 0) being byte 2k plus 256 times byte 2k + 1 of the
\* file, whatever bytes follow the first width * height * 2.
C37_TileDecoding ==
    [][\A c \in TileCoords :
          (lastFetch' # lastFetch /\ lastFetch'.coord = c
             /\ c \notin DOMAIN tiles /\ files[c].exists) =>
             LET bytes == files[c].bytes
                 n == TileResX * TileResZ
                 got == lastFetch'.result
             IN  IF Len(bytes) < n * 2 THEN got = None
                 ELSE /\ got # None
                      /\ got[1].res = <<TileResX, TileResZ>>
                      /\ Len(got[1].data) = n
                      /\ \A k \in 0..(n - 1) :
                            got[1].data[k + 1]
                               = bytes[2 * k + 1] + 256 * bytes[2 * k + 2]]_vars

\* the last fetch decoded a file that is longer than width * height * 2 bytes
C37_Witness ==
    /\ lastFetch.result # None
    /\ lastFetch.coord \in DOMAIN tiles
    /\ lastFetch.result = Some(tiles[lastFetch.coord])
    /\ files[lastFetch.coord].exists
    /\ Len(files[lastFetch.coord].bytes) > TileResX * TileResZ * 2
    /\ tiles[lastFetch.coord].data[1]
          = files[lastFetch.coord].bytes[1]
              + 256 * files[lastFetch.coord].bytes[2]
    /\ tiles[lastFetch.coord] # TileA


====
